---- MODULE Spec2Model ----
(***************************************************************************)
(* A model of the stage-sequenced diagnosis workflow of                    *)
(* medical_diagnosis/workflow.py (class DiagnosisWorkflow) and of the      *)
(* approval chat session of App/chat (ChatSession, PromptHandler,          *)
(* ChatMemory).                                                            *)
(*                                                                         *)
(* Text is modelled as a sequence of chunks (strings); concatenation and   *)
(* f-string interpolation are \o, the substring test "x in y" is           *)
(* Contains.  A Python dict is a function whose DOMAIN is its key set, so  *)
(* "key in d", d.get(key, default) and d[key] = v are modelled literally.  *)
(***************************************************************************)
EXTENDS Integers, Sequences, FiniteSets, TLC

VARIABLES
    results,       \* DiagnosisWorkflow.results: stage id -> result dict
    lastReturn,    \* the last finished process_stage call: its arguments and outcome
    gatewayLog,    \* gateway exchanges made by that call (none while one is in progress)
    currentStage,  \* the driver's current stage (WorkflowEngine.currentStage)
    attempts,      \* consecutive validation responses without the marker
    calls,         \* number of direct API calls made (SpecCalls)
    lastLookup,    \* the last get_stage_result call: its argument and value
    handler,       \* ChatSession.handler: the PromptHandler and its memory
    chatReturn,    \* the last finished ChatSession call: its arguments and outcome
    azureLog,      \* AzureModel.invoke exchanges of the last ChatSession call
    turns,         \* number of ChatSession calls entered
    sessions,      \* two ChatSession objects: instance -> its handler
    workflows,     \* two DiagnosisWorkflow objects: instance -> its results
    pairCall,      \* the last call made on one of the paired objects
    pairOps,       \* number of calls made on the paired objects
    threads,       \* threads inside process_input of the one session: thread -> position
    session_state, \* st.session_state of App/main.py: key -> value
    rerunPending,  \* App/main.py: st.rerun() was called, the script runs again at once
    lastRun,       \* App/main.py: the last script run, its event and what it did
    runs,          \* App/main.py: number of script runs made
    app_state,     \* st.session_state of app1.py: stage and conversation
    lastClick,     \* app1.py: the last script run, its event and what it did
    clicks,        \* app1.py: number of script runs made
    diagnosisRun,  \* App/workflows: the last run_diagnosis call and what it gave
    pending,       \* the process_stage call in progress on the workflow, if any
    pairPending,   \* per paired workflow: the process_stage call in progress, if any
    chatPending,   \* the ChatSession call waiting in AzureModel.invoke, if any
    pairChatPending \* per paired session: the call waiting in AzureModel.invoke, if any

workflowVars ==
    <<results, lastReturn, gatewayLog, currentStage, attempts, calls, lastLookup, pending>>

chatVars == <<handler, chatReturn, azureLog, turns, chatPending>>

pairVars == <<sessions, workflows, pairCall, pairOps, pairPending, pairChatPending>>

threadVars == <<threads>>

stepVars == <<session_state, rerunPending, lastRun, runs>>

proceedVars == <<app_state, lastClick, clicks>>

diagnosisVars == <<diagnosisRun>>

\* what the calls on the single workflow leave alone
besidesWorkflow == <<diagnosisVars, proceedVars, chatVars, pairVars, threadVars, stepVars>>

\* what the calls on the single chat session leave alone
besidesChat == <<diagnosisVars, proceedVars, workflowVars, pairVars, threadVars, stepVars>>

\* what the calls on the paired objects leave alone
besidesPair == <<diagnosisVars, proceedVars, workflowVars, chatVars, threadVars, stepVars>>

\* what a thread inside process_input leaves alone
besidesThreads ==
    <<diagnosisVars, proceedVars, workflowVars, pairVars, chatReturn, azureLog, turns,
      chatPending, stepVars>>

\* what a script run of app1.py leaves alone
besidesProceed == <<diagnosisVars, workflowVars, chatVars, pairVars, threadVars, stepVars>>

vars == <<results, lastReturn, gatewayLog, currentStage, attempts, calls, lastLookup,
          handler, chatReturn, azureLog, turns,
          sessions, workflows, pairCall, pairOps, threads,
          session_state, rerunPending, lastRun, runs,
          app_state, lastClick, clicks, diagnosisRun, pending, pairPending,
          chatPending, pairChatPending>>

----------------------------------------------------------------------------
(* Bounds of the model *)

\* direct process_stage calls explored from a fresh workflow (SpecCalls)
MaxCalls == 2

\* consecutive not-ready validation answers the driver is followed through
MaxRetries == 3

\* ChatSession calls explored from a fresh session (SpecChat)
MaxTurns == 3

\* calls explored on a workflow and a chat session side by side (SpecObjects)
MaxOps == 2

\* calls explored on two sessions and two workflows together (SpecPair)
MaxPairOps == 2

\* script runs of App/main.py explored from a fresh browser session (SpecSteps)
MaxRuns == 8

\* script runs of app1.py explored from a fresh browser session (SpecProceed)
MaxClicks == 8

----------------------------------------------------------------------------
(* Python values *)

\* None, where a text is expected (input_text=None)
NoneText == <<"<None>">>

\* None, where a message list is expected (chat_history=None)
NoneHistory == <<[role |-> "<None>", content |-> <<>>]>>

\* truth value of an optional str: None and "" are falsy
Truthy(t) == t # NoneText /\ t # <<>>

\* str(x) as done by an f-string or str.format: None renders as "None"
Str(t) == IF t = NoneText THEN <<"None">> ELSE t

\* the test written as "chat_history is not None": [] counts as a history
HasHistory_NotNone(h) == h # NoneHistory

\* "chat_history and len(chat_history) > 0"
HasHistory(h) == h # NoneHistory /\ Len(h) > 0

\* the empty dict {}
EmptyDict == <<>>

\* d.get(k, default)
Get(d, k, default) == IF k \in DOMAIN d THEN d[k] ELSE default

\* d[k] = v
Put(d, k, v) == (k :> v) @@ d

\* needle in text (contiguous chunks)
Contains(text, needle) ==
    \E i \in 0..(Len(text) - Len(needle)) :
        \A j \in 1..Len(needle) : text[i + j] = needle[j]

----------------------------------------------------------------------------
(* Inputs *)

\* a case description (input_text of the initial stage, additional information later)
CaseText == <<"45-year-old with chest pain">>

\* values of the input_text argument
InputTexts == {NoneText, <<>>, CaseText}

\* values of the chat_history argument
Histories ==
    { NoneHistory,
      <<>>,
      <<[role |-> "user", content |-> <<"hello">>],
        [role |-> "assistant", content |-> <<"hi">>]>> }

\* the literal tested by the validation stage: the source holds the check
\* mark U+2705 read as cp1252 (U+00E2 U+0153 U+2026), then " Yes"
ReadyMarker == <<"[U+00E2 U+0153 U+2026]", " Yes">>

\* gateway answers: plain text, an answer holding the marker, and an answer
\* holding a correctly encoded check mark (which is not the marker)
PlainResponse == <<"Symptoms: chest pain">>
ReadyResponse == <<"Ready to proceed: ", "[U+00E2 U+0153 U+2026]", " Yes", ".">>
CheckResponse == <<"[U+2705]", " Yes">>

\* answers drawn for a stage; validation is tried with all three
Responses(stage) ==
    IF stage = "validation"
    THEN {PlainResponse, ReadyResponse, CheckResponse}
    ELSE {PlainResponse, ReadyResponse}

\* what a gateway call can do: answer with a text, or raise
GatewayOutcomes(stage) ==
    {[ok |-> TRUE, text |-> r] : r \in Responses(stage)}
        \cup {[ok |-> FALSE, text |-> <<>>]}

----------------------------------------------------------------------------
(* The stage catalog *)

stage_sequence ==
    << "initial", "extraction", "causal_analysis", "validation",
       "counterfactual", "diagnosis", "treatment_planning",
       "patient_specific", "final_plan", "visualization" >>

\* the stages answered by the gateway
GenerationStages ==
    { "extraction", "causal_analysis", "validation", "counterfactual",
      "diagnosis", "treatment_planning", "patient_specific", "final_plan" }

\* the stage identifiers process_stage has a branch for
KnownStages == {"initial", "visualization"} \cup GenerationStages

\* an identifier outside the fixed stage set
UnknownStage == "triage"

\* every identifier a caller passes in the model
StageIds == KnownStages \cup {"complete", UnknownStage}

\* the fixed chain of the specification, ending in complete
Chain == stage_sequence \o <<"complete">>

\* position of x in a sequence holding it (list.index)
IndexOf(seq, x) == CHOOSE i \in 1..Len(seq) : seq[i] = x /\ \A j \in 1..(i - 1) : seq[j] # x

\* get_next_stage without the step to the following index
get_next_stage_NoStep(current_stage) == current_stage

get_next_stage(current_stage) ==
    IF \E i \in 1..Len(stage_sequence) : stage_sequence[i] = current_stage
    THEN LET current_index == IndexOf(stage_sequence, current_stage)
         IN  IF current_index < Len(stage_sequence)
             THEN stage_sequence[current_index + 1]
             ELSE current_stage
    ELSE current_stage

----------------------------------------------------------------------------
(* Context composition *)

\* self.results.get(stage, {}).get(field, default)
Lookup(res, stage, field, default) == Get(Get(res, stage, EmptyDict), field, default)

\* the prompt template of a generation stage
PromptOf(stage) ==
    CASE stage = "extraction"         -> "NODE_EXTRACTION_PROMPT"
      [] stage = "causal_analysis"    -> "CAUSAL_ANALYSIS_PROMPT"
      [] stage = "validation"         -> "VALIDATION_PROMPT"
      [] stage = "counterfactual"     -> "COUNTERFACTUAL_PROMPT"
      [] stage = "diagnosis"          -> "DIAGNOSIS_RANKING_PROMPT"
      [] stage = "treatment_planning" -> "TREATMENT_PROMPT"
      [] stage = "patient_specific"   -> "PATIENT_SPECIFIC_TREATMENT_PROMPT"
      [] stage = "final_plan"         -> "FINAL_TREATMENT_PROMPT"

\* prompt.format(name=value): the template with its one placeholder filled
Format(prompt, value) == <<prompt, "{">> \o Str(value) \o <<"}">>

\* the value a generation stage hands to its prompt template
Context(stage, res, input_text) ==
    CASE stage = "extraction" ->
            Lookup(res, "initial", "case_text", input_text)
      [] stage = "causal_analysis" ->
            Lookup(res, "extraction", "extracted_factors", <<>>)
      [] stage = "validation" ->
            <<"Extracted Factors:\n">>
                \o Str(Lookup(res, "extraction", "extracted_factors", <<>>))
                \o <<"\n\nCausal Links:\n">>
                \o Str(Lookup(res, "causal_analysis", "causal_links", <<>>))
                \o (IF Truthy(input_text)
                    THEN <<"\n\nAdditional Information:\n">> \o input_text
                    ELSE <<>>)
      [] stage = "counterfactual" ->
            <<"Extracted Factors:\n">>
                \o Str(Lookup(res, "extraction", "extracted_factors", <<>>))
                \o <<"\n\nCausal Links:\n">>
                \o Str(Lookup(res, "causal_analysis", "causal_links", <<>>))
                \o <<"\n\nValidation:\n">>
                \o Str(Lookup(res, "validation", "validation_result", <<>>))
      [] stage = "diagnosis" ->
            Lookup(res, "counterfactual", "counterfactual_analysis", <<>>)
      [] stage = "treatment_planning" ->
            Lookup(res, "diagnosis", "diagnosis", <<>>)
      [] stage = "patient_specific" ->
            <<"Diagnosis:\n">>
                \o Str(Lookup(res, "diagnosis", "diagnosis", <<>>))
                \o <<"\n\nTreatment Options:\n">>
                \o Str(Lookup(res, "treatment_planning", "treatment_plan", <<>>))
                \o (IF Truthy(input_text)
                    THEN <<"\n\nPatient-Specific Information:\n">> \o input_text
                    ELSE <<>>)
      [] stage = "final_plan" ->
            <<"Treatment Options:\n">>
                \o Str(Lookup(res, "treatment_planning", "treatment_plan", <<>>))
                \o <<"\n\nPatient-Specific Plan:\n">>
                \o Str(Lookup(res, "patient_specific", "patient_specific_plan", <<>>))

\* Payload with the stage's own previous output appended to the context
Payload_WithOwnResult(stage, res, input_text) ==
    Format(PromptOf(stage),
           Context(stage, res, input_text)
               \o Str(Lookup(res, stage, "validation_result", <<>>)))

\* the prior stages whose stored text a stage reads (extraction reads the
\* case text of initial, line 96)
Dependencies(stage) ==
    CASE stage = "extraction"         -> {"initial"}
      [] stage = "causal_analysis"    -> {"extraction"}
      [] stage = "validation"         -> {"extraction", "causal_analysis"}
      [] stage = "counterfactual"     -> {"extraction", "causal_analysis", "validation"}
      [] stage = "diagnosis"          -> {"counterfactual"}
      [] stage = "treatment_planning" -> {"diagnosis"}
      [] stage = "patient_specific"   -> {"diagnosis", "treatment_planning"}
      [] stage = "final_plan"         -> {"treatment_planning", "patient_specific"}

\* Payload that marks a stage run again once the stage has a stored result
Payload_MarksRerun(stage, res, input_text) ==
    Format(PromptOf(stage), Context(stage, res, input_text))
        \o (IF stage \in DOMAIN res /\ "next_stage" \in DOMAIN res[stage]
            THEN <<"(again)">> ELSE <<>>)

\* the composed payload of a generation stage
Payload(stage, res, input_text) == Format(PromptOf(stage), Context(stage, res, input_text))

\* the messages built as chat_history.insert(0, system): the caller's list
\* itself becomes the message list
GatewayRequest_InPlace(stage, res, input_text, chat_history) ==
    IF HasHistory(chat_history)
    THEN [ mode     |-> "history",
           payload  |-> Payload(stage, res, input_text),
           messages |-> <<[role |-> "system", content |-> Payload(stage, res, input_text)]>>
                            \o chat_history,
           chat_history |-> <<[role |-> "system", content |-> Payload(stage, res, input_text)]>>
                            \o chat_history ]
    ELSE [ mode     |-> "prompt",
           payload  |-> Payload(stage, res, input_text),
           messages |-> <<>>,
           chat_history |-> chat_history ]

\* the request process_stage hands to the gateway: generate_with_history
\* with a leading system message, or generate with the prompt and its value.
\* messages is a new list that extend() fills from chat_history; the field
\* chat_history is the caller's list as the call leaves it.
GatewayRequest(stage, res, input_text, chat_history) ==
    IF HasHistory(chat_history)
    THEN [ mode     |-> "history",
           payload  |-> Payload(stage, res, input_text),
           messages |-> <<[role |-> "system", content |-> Payload(stage, res, input_text)]>>
                            \o chat_history,
           chat_history |-> chat_history ]
    ELSE [ mode     |-> "prompt",
           payload  |-> Payload(stage, res, input_text),
           messages |-> <<>>,
           chat_history |-> chat_history ]

----------------------------------------------------------------------------
(* process_stage *)

\* lines 78-83: results[stage] is created if missing and marked processing
Prewrite(res, stage) ==
    Put(res, stage, Put(Get(res, stage, EmptyDict), "processing", TRUE))

\* the readiness test written as response.startswith(marker)
ready_to_proceed_AtStart(response) ==
    Len(response) >= Len(ReadyMarker)
        /\ SubSeq(response, 1, Len(ReadyMarker)) = ReadyMarker

\* the readiness test that no answer passes
ready_to_proceed_Never(response) == FALSE

\* the readiness test of the validation stage
ready_to_proceed(response) == Contains(response, ReadyMarker)

\* the next_stage literal written by each branch but validation's
HardCodedNext(stage) ==
    CASE stage = "initial"            -> "extraction"
      [] stage = "extraction"         -> "causal_analysis"
      [] stage = "causal_analysis"    -> "validation"
      [] stage = "counterfactual"     -> "diagnosis"
      [] stage = "diagnosis"          -> "treatment_planning"
      [] stage = "treatment_planning" -> "patient_specific"
      [] stage = "patient_specific"   -> "final_plan"
      [] stage = "final_plan"         -> "visualization"
      [] stage = "visualization"      -> "complete"

\* NextStageOf with the counterfactual branch naming the stage after diagnosis
NextStageOf_SkipsDiagnosis(stage, response) ==
    IF stage = "validation"
    THEN IF ready_to_proceed(response) THEN "counterfactual" ELSE "validation"
    ELSE IF stage = "counterfactual" THEN "treatment_planning" ELSE HardCodedNext(stage)

\* NextStageOf with the two outcomes of the readiness test exchanged
NextStageOf_ReadyInverted(stage, response) ==
    IF stage = "validation"
    THEN IF ready_to_proceed(response) THEN "validation" ELSE "counterfactual"
    ELSE HardCodedNext(stage)

\* the next_stage process_stage writes for a stage, given the gateway's response
NextStageOf(stage, response) ==
    IF stage = "validation"
    THEN IF ready_to_proceed(response) THEN "counterfactual" ELSE "validation"
    ELSE HardCodedNext(stage)

\* the dict a generation stage stores and returns for a gateway response
StageResult(stage, response) ==
    CASE stage = "extraction" ->
            [extracted_factors |-> response, next_stage |-> NextStageOf(stage, response)]
      [] stage = "causal_analysis" ->
            [causal_links |-> response, next_stage |-> NextStageOf(stage, response)]
      [] stage = "validation" ->
            [validation_result |-> response,
             ready |-> ready_to_proceed(response),
             next_stage |-> NextStageOf(stage, response)]
      [] stage = "counterfactual" ->
            [counterfactual_analysis |-> response, next_stage |-> NextStageOf(stage, response)]
      [] stage = "diagnosis" ->
            [diagnosis |-> response, next_stage |-> NextStageOf(stage, response)]
      [] stage = "treatment_planning" ->
            [treatment_plan |-> response, next_stage |-> NextStageOf(stage, response)]
      [] stage = "patient_specific" ->
            [patient_specific_plan |-> response, next_stage |-> NextStageOf(stage, response)]
      [] stage = "final_plan" ->
            [final_treatment_plan |-> response, next_stage |-> NextStageOf(stage, response)]

\* Visualizer (visualizer.py) defines no create_interactive_causal_graph, so
\* the call at line 347 raises AttributeError inside the try block
VisualizerHasInteractiveGraph == FALSE

\* the visualization result that names no next stage when rendering failed
VisualizationResult_NoNextOnError(causal_links) ==
    IF VisualizerHasInteractiveGraph
    THEN [graph_html_path |-> <<"graph.html">>,
          embedded_graph_html |-> <<"<iframe>">>,
          next_stage |-> "complete"]
    ELSE [error |-> <<"Error creating visualization: ", "AttributeError">>]

\* the dict the visualization stage stores and returns
VisualizationResult(causal_links) ==
    IF VisualizerHasInteractiveGraph
    THEN [graph_html_path |-> <<"graph.html">>,
          embedded_graph_html |-> <<"<iframe>">>,
          next_stage |-> NextStageOf("visualization", <<>>)]
    ELSE [error |-> <<"Error creating visualization: ", "AttributeError">>,
          next_stage |-> NextStageOf("visualization", <<>>)]

\* the branch taken for a stage id that process_stage does not know
UnknownStageReturn(stage) == [error |-> <<"Unknown stage: ", stage>>]

\* Store done as results[stage].update({...}): the keys already there stay
Store_Update(res, stage, r) == Put(res, stage, r @@ Get(res, stage, EmptyDict))

\* Store done as self.results = {stage: {...}}: the other entries are dropped
Store_Fresh(res, stage, r) == (stage :> r)

\* self.results[stage] = {...}: the stage's entry is replaced as a whole
Store(res, stage, r) == Put(res, stage, r)

\* lines 79-83 and the lines of a generation branch up to its llm_service
\* call: the stage's entry is marked as processing, then the request is
\* built from the store as it then is
BeginStage(res, stage, input_text, chat_history) ==
    LET pre == Prewrite(res, stage)
    IN  [ results |-> pre,
          request |-> IF stage \in GenerationStages
                      THEN GatewayRequest(stage, pre, input_text, chat_history)
                      ELSE EmptyDict ]

\* FinishStage that sends the request a second time when the gateway failed
FinishStage_RetriesOnce(res, stage, input_text, req, gw) ==
    CASE stage = "initial" ->
            LET r == [case_text |-> input_text, next_stage |-> NextStageOf(stage, <<>>)]
            IN  [results |-> Store(res, stage, r), raised |-> FALSE,
                 value |-> r, log |-> <<>>]
      [] stage \in GenerationStages ->
            IF gw.ok
            THEN [results |-> Store(res, stage, StageResult(stage, gw.text)),
                  raised |-> FALSE,
                  value |-> StageResult(stage, gw.text),
                  log |-> <<[request |-> req, ok |-> TRUE, reply |-> gw.text]>>]
            ELSE [results |-> res, raised |-> TRUE, value |-> EmptyDict,
                  log |-> <<[request |-> req, ok |-> FALSE, reply |-> <<>>],
                            [request |-> req, ok |-> FALSE, reply |-> <<>>]>>]
      [] stage = "visualization" ->
            LET r == VisualizationResult(Lookup(res, "causal_analysis", "causal_links", <<>>))
            IN  [results |-> Store(res, stage, r), raised |-> FALSE,
                 value |-> r, log |-> <<>>]
      [] OTHER ->
            [results |-> res, raised |-> FALSE,
             value |-> UnknownStageReturn(stage), log |-> <<>>]

\* the rest of process_stage, on the store res as it is when the gateway
\* call (if the stage makes one) comes back with outcome gw: the result is
\* stored and returned, or the exception leaves the store as it is.
\* Yields the store afterwards, whether the call raised, the returned dict
\* and the gateway exchanges.
FinishStage(res, stage, input_text, req, gw) ==
    CASE stage = "initial" ->
            LET r == [case_text |-> input_text, next_stage |-> NextStageOf(stage, <<>>)]
            IN  [results |-> Store(res, stage, r), raised |-> FALSE,
                 value |-> r, log |-> <<>>]
      [] stage \in GenerationStages ->
            IF gw.ok
            THEN [results |-> Store(res, stage, StageResult(stage, gw.text)),
                  raised |-> FALSE,
                  value |-> StageResult(stage, gw.text),
                  log |-> <<[request |-> req, ok |-> TRUE, reply |-> gw.text]>>]
            ELSE [results |-> res, raised |-> TRUE, value |-> EmptyDict,
                  log |-> <<[request |-> req, ok |-> FALSE, reply |-> <<>>]>>]
      [] stage = "visualization" ->
            LET r == VisualizationResult(Lookup(res, "causal_analysis", "causal_links", <<>>))
            IN  [results |-> Store(res, stage, r), raised |-> FALSE,
                 value |-> r, log |-> <<>>]
      [] OTHER ->
            [results |-> res, raised |-> FALSE,
             value |-> UnknownStageReturn(stage), log |-> <<>>]

\* process_stage(stage, input_text, chat_history) run without interruption
\* on store res, with gw the outcome of the gateway call it may make
process_stage(res, stage, input_text, chat_history, gw) ==
    LET b == BeginStage(res, stage, input_text, chat_history)
    IN  FinishStage(b.results, stage, input_text, b.request, gw)

get_stage_result(res, stage) == Get(res, stage, EmptyDict)

----------------------------------------------------------------------------
(* The chat session: App/chat/memory.py, handlers.py, session.py *)

\* the text of a refinement request
RefineText == <<"patient has diabetes">>

\* texts a caller passes to start_case
CaseTexts == {CaseText, RefineText}

\* improvement_text of approve_stage: None, "" or a text
ImprovementTexts == {NoneText, <<>>, RefineText}

\* a second answer of the model, told apart from PlainResponse
RefinedResponse == <<"Symptoms: chest pain; history: diabetes">>

\* AzureModel.invoke: an answer, or the exception it logs and re-raises
AzureOutcomes ==
    { [ok |-> TRUE, text |-> PlainResponse],
      [ok |-> TRUE, text |-> RefinedResponse],
      [ok |-> FALSE, text |-> <<>>] }

\* the only stage a ChatMemory is ever in
NODE_EXTRACTION == "NODE_EXTRACTION"

\* the template of App/utils/prompts.py
NODE_EXTRACTION_PROMPT == <<"NODE_EXTRACTION_PROMPT">>

\* format_prompt(template, case_text=...): the template with the text filled in
format_prompt(template, case_text) == template \o <<"{">> \o Str(case_text) \o <<"}">>

\* ChatMemory(): no messages, stage NODE_EXTRACTION, no stage results
ChatMemory ==
    [ messages |-> <<>>, current_stage |-> NODE_EXTRACTION, stage_results |-> EmptyDict ]

\* add_message written as messages.insert(0, ...)
add_message_AtFront(memory, role, content) ==
    [memory EXCEPT !.messages = <<[role |-> role, content |-> content]>> \o @]

\* ChatMemory.add_message: append one turn
add_message(memory, role, content) ==
    [memory EXCEPT !.messages = Append(@, [role |-> role, content |-> content])]

\* ChatMemory.get_messages
get_messages(memory) == memory.messages

\* store_stage_result written as setdefault: an earlier result is kept
store_stage_result_KeepsFirst(memory, result) ==
    [memory EXCEPT !.stage_results =
        IF memory.current_stage \in DOMAIN @ THEN @ ELSE Put(@, memory.current_stage, result)]

\* ChatMemory.store_stage_result: stage_results[current_stage] = result
store_stage_result(memory, result) ==
    [memory EXCEPT !.stage_results = Put(@, memory.current_stage, result)]

\* ChatMemory.get_stage_result: stage_results.get(current_stage, "")
memory_get_stage_result(memory) == Get(memory.stage_results, memory.current_stage, <<>>)

\* clear that empties the stage results and keeps the messages
clear_ResultsOnly(memory) == [memory EXCEPT !.stage_results = EmptyDict]

\* ChatMemory.clear: messages and stage results are emptied, the stage stays
clear(memory) == [memory EXCEPT !.messages = <<>>, !.stage_results = EmptyDict]

\* PromptHandler(): a fresh ChatMemory (the AzureModel holds no session state)
PromptHandler == [memory |-> ChatMemory]

\* the value of a Python function that falls off its end
NoneReturn == [none |-> TRUE]

\* process_input that appends the user turn before it invokes the model
process_input_LogsFirst(h, user_input, gw) ==
    IF h.memory.current_stage = NODE_EXTRACTION
    THEN LET prompt  == format_prompt(NODE_EXTRACTION_PROMPT, user_input)
             withUsr == add_message(h.memory, "user", user_input)
         IN  IF gw.ok
             THEN LET stored  == store_stage_result(withUsr, gw.text)
                      withAst == add_message(stored, "assistant", gw.text)
                  IN  [ handler |-> [h EXCEPT !.memory = withAst],
                        raised  |-> FALSE,
                        value   |-> [ stage    |-> withAst.current_stage,
                                      response |-> gw.text,
                                      status   |-> "awaiting_approval" ],
                        log     |-> <<[prompt |-> prompt, ok |-> TRUE, reply |-> gw.text]>> ]
             ELSE [ handler |-> [h EXCEPT !.memory = withUsr],
                    raised |-> TRUE, value |-> EmptyDict,
                    log |-> <<[prompt |-> prompt, ok |-> FALSE, reply |-> <<>>]>> ]
    ELSE [ handler |-> h, raised |-> FALSE, value |-> NoneReturn, log |-> <<>> ]

\* PromptHandler.process_input: outside NODE_EXTRACTION nothing is done;
\* otherwise the model is invoked with the formatted prompt and, when it
\* answers, the result is stored and the two turns are appended.  Yields
\* the handler afterwards, whether the call raised, the returned dict and
\* the exchanges with the model.
process_input(h, user_input, gw) ==
    IF h.memory.current_stage = NODE_EXTRACTION
    THEN LET prompt == format_prompt(NODE_EXTRACTION_PROMPT, user_input)
         IN  IF gw.ok
             THEN LET stored  == store_stage_result(h.memory, gw.text)
                      withUsr == add_message(stored, "user", user_input)
                      withAst == add_message(withUsr, "assistant", gw.text)
                  IN  [ handler |-> [h EXCEPT !.memory = withAst],
                        raised  |-> FALSE,
                        value   |-> [ stage    |-> withAst.current_stage,
                                      response |-> gw.text,
                                      status   |-> "awaiting_approval" ],
                        log     |-> <<[prompt |-> prompt, ok |-> TRUE, reply |-> gw.text]>> ]
             ELSE [ handler |-> h, raised |-> TRUE, value |-> EmptyDict,
                    log |-> <<[prompt |-> prompt, ok |-> FALSE, reply |-> <<>>]>> ]
    ELSE [ handler |-> h, raised |-> FALSE, value |-> NoneReturn, log |-> <<>> ]

\* handle_approval that re-runs the stage on every rejection
handle_approval_RejectReruns(h, approved, improvement_text, gw) ==
    IF ~approved
    THEN process_input(h, improvement_text, gw)
    ELSE [ handler |-> h, raised |-> FALSE,
           value   |-> [ stage    |-> h.memory.current_stage,
                         response |-> <<"Stage completed successfully.">>,
                         status   |-> "completed" ],
           log     |-> <<>> ]

\* PromptHandler.handle_approval: a rejection with an improvement text runs
\* process_input on that text; anything else reports the stage completed
handle_approval(h, approved, improvement_text, gw) ==
    IF ~approved /\ Truthy(improvement_text)
    THEN process_input(h, improvement_text, gw)
    ELSE [ handler |-> h, raised |-> FALSE,
           value   |-> [ stage    |-> h.memory.current_stage,
                         response |-> <<"Stage completed successfully.">>,
                         status   |-> "completed" ],
           log     |-> <<>> ]

\* PromptHandler.get_current_state
get_current_state(h) ==
    [ stage          |-> h.memory.current_stage,
      current_result |-> memory_get_stage_result(h.memory),
      history        |-> get_messages(h.memory) ]

\* ChatSession.start_case
start_case(h, case_text, gw) == process_input(h, case_text, gw)

\* ChatSession.approve_stage
approve_stage(h, approved, improvement_text, gw) ==
    handle_approval(h, approved, improvement_text, gw)

\* ChatSession.get_status
get_status(h) == get_current_state(h)

\* clear_session that keeps the handler it has
clear_session_KeepsHandler(h) == h

\* ChatSession.clear_session: the handler h is dropped for a fresh PromptHandler
clear_session(h) == PromptHandler

----------------------------------------------------------------------------
(* The step-based Streamlit flow: App/main.py *)

\* Python's None as a session value
NoneValue == [none |-> TRUE]

\* the keys initialize_app sets when missing, with their defaults
Defaults ==
    [ step |-> 1, progress |-> 0, patient_info |-> NoneValue,
      medical_nodes |-> NoneValue, missing_info_responses |-> EmptyDict,
      diagnosis |-> NoneValue, treatment_plan |-> NoneValue ]

\* initialize_app: every default key that is missing gets its default
initialize_app(ss) ==
    [ k \in DOMAIN ss \cup DOMAIN Defaults |->
        IF k \in DOMAIN ss THEN ss[k] ELSE Defaults[k] ]

\* hasattr(st.session_state, key)
hasattr(ss, key) == key \in DOMAIN ss

\* next_step: st.session_state.step += 1
next_step(ss) == [ss EXCEPT !["step"] = @ + 1]

\* generate_followup_questions: one question per missing item
generate_followup_questions(missing_info) ==
    [ i \in 1..Len(missing_info) |->
        <<"Can you provide more information about ", missing_info[i], "?">> ]

\* the widget interactions that start a script run
NoEvent == [kind |-> "none", text |-> <<>>]

\* what the user can do with the widgets the last run rendered
EventsOf(widgets) ==
    {NoEvent}
      \cup (IF "submit" \in widgets
            THEN {[kind |-> "submit", text |-> t] : t \in {<<>>} \cup CaseTexts} ELSE {})
      \cup (IF "proceed" \in widgets THEN {[kind |-> "proceed", text |-> <<>>]} ELSE {})
      \cup (IF "restart" \in widgets THEN {[kind |-> "restart", text |-> <<>>]} ELSE {})

\* what the three analysis calls of a run do (ok: the call returned).  Each
\* raises: extract_nodes calls .dict() on the str it got (extractor.py:108),
\* analyze_causal_links calls .dict() on the keys of a dict (analyzer.py:92),
\* check_missing_info unpacks a four-key dict into three names
\* (validator.py:79); a failing AzureModel raises before that
AnalysisOutcomes ==
    [ extract : {[ok |-> FALSE, value |-> <<>>]},
      causal  : {[ok |-> FALSE, value |-> <<>>]},
      gaps    : {[ok |-> FALSE, value |-> <<>>]} ]

\* the end of a script run: the session state it leaves, whether it called
\* st.rerun(), whether it stopped on an exception, the widgets it rendered
\* and the analyses it completed
RunEnd(ss, rerun, raised, widgets, analyses) ==
    [ state |-> ss, rerun |-> rerun, raised |-> raised, widgets |-> widgets,
      analyses |-> analyses ]

\* line 108: "if st.session_state.missing_info"
HasGaps(ss) == Len(ss["missing_info"]) > 0

\* lines 127-129: every key is deleted, then initialize_app sets the defaults
StartNewCase(ss) == initialize_app(EmptyDict)

\* lines 124-130: the restart button, rendered when step > 1
RestartSection(ss, ev, widgets, analyses) ==
    IF ss["step"] > 1
    THEN IF ev.kind = "restart"
         THEN RunEnd(StartNewCase(ss), TRUE, FALSE, widgets \cup {"restart"}, analyses)
         ELSE RunEnd(ss, FALSE, FALSE, widgets \cup {"restart"}, analyses)
    ELSE RunEnd(ss, FALSE, FALSE, widgets, analyses)

\* utils/schemas.py defines MedicalNode, MedicalNodes, CausalLink,
\* CausalAnalysis, Counterfactual and TreatmentPlan, and no PatientInfo
PatientInfoDefined == FALSE

\* lines 44-59: the case form; line 55 builds PatientInfo(case_text=...)
\* before it writes progress and calls next_step, and with the name
\* undefined the run stops there on the exception
Step1(ss, ev) ==
    IF ev.kind = "submit" /\ Truthy(ev.text)
    THEN IF PatientInfoDefined
         THEN RunEnd(next_step([ss EXCEPT !["patient_info"] = [case_text |-> ev.text],
                                          !["progress"] = 25]),
                     TRUE, FALSE, {"submit"}, {})
         ELSE RunEnd(ss, FALSE, TRUE, {"submit"}, {})
    ELSE RestartSection(ss, ev, {"submit"}, {})

\* lines 61-91: factor extraction and causal analysis, each once, then on
Step2(ss, ag) ==
    LET needExtract == ~hasattr(ss, "nodes_extracted")
        ss1 == IF needExtract
               THEN ("nodes" :> ag.extract.value) @@ ("nodes_extracted" :> TRUE)
                        @@ [ss EXCEPT !["progress"] = 50]
               ELSE ss
        done1 == IF needExtract THEN {"extract"} ELSE {}
        needCausal == ~hasattr(ss1, "causal_analyzed")
        ss2 == IF needCausal
               THEN ("causal_links" :> ag.causal.value) @@ ("causal_analyzed" :> TRUE)
                        @@ [ss1 EXCEPT !["progress"] = 75]
               ELSE ss1
        done2 == IF needCausal THEN done1 \cup {"causal"} ELSE done1
    IN  IF needExtract /\ ~ag.extract.ok
        THEN RunEnd(ss, FALSE, TRUE, {}, {})
        ELSE IF needCausal /\ ~ag.causal.ok
             THEN RunEnd(ss1, FALSE, TRUE, {}, done1)
             ELSE RunEnd(next_step(ss2), TRUE, FALSE, {}, done2)

\* lines 93-122: the gap check, once; then the halt or the Proceed button
Step3(ss, ev, ag) ==
    LET needGaps == ~hasattr(ss, "gaps_checked")
        ss1 == IF needGaps
               THEN ("missing_info" :> ag.gaps.value)
                        @@ ("questions" :> generate_followup_questions(ag.gaps.value))
                        @@ ("gaps_checked" :> TRUE)
                        @@ [ss EXCEPT !["progress"] = 100]
               ELSE ss
        done == IF needGaps THEN {"gaps"} ELSE {}
    IN  IF needGaps /\ ~ag.gaps.ok
        THEN RunEnd(ss, FALSE, TRUE, {}, {})
        ELSE IF HasGaps(ss1)
             THEN RestartSection(ss1, ev, {}, done)
             ELSE IF ev.kind = "proceed"
                  THEN RunEnd(next_step(ss1), TRUE, FALSE, {"proceed"}, done)
                  ELSE RestartSection(ss1, ev, {"proceed"}, done)

\* lines 8-12, the imports of the script: agents/extractor.py starts with
\* "from ..models.azure import AzureModel", a relative import beyond the
\* top-level package agents, and line 12 asks utils.schemas for PatientInfo;
\* the import raises in every run
ImportsSucceed == FALSE

\* the script body of main(), past the imports
MainBody(ss0, ev, ag) ==
    LET ss == initialize_app(ss0)
    IN  CASE ss["step"] = 1 -> Step1(ss, ev)
          [] ss["step"] = 2 -> Step2(ss, ag)
          [] ss["step"] = 3 -> Step3(ss, ev, ag)
          [] OTHER          -> RestartSection(ss, ev, {}, {})

\* one script run with the event that started it and the outcomes of the
\* analysis calls it makes: the imports, then main(); a run that stops at
\* the imports leaves the session state as it found it and renders nothing
main(ss0, ev, ag) ==
    IF ImportsSucceed
    THEN MainBody(ss0, ev, ag)
    ELSE RunEnd(ss0, FALSE, TRUE, {}, {})

----------------------------------------------------------------------------
(* The Proceed-button flow: app1.py *)

\* the templates of App/utils/prompts.py that the Proceed handler uses
StagePrompt(stage) ==
    CASE stage = "extract"         -> <<"NODE_EXTRACTION_PROMPT">>
      [] stage = "causal_analysis" -> <<"CAUSAL_ANALYSIS_PROMPT">>
      [] stage = "missing_info"    -> <<"VALIDATION_PROMPT">>
      [] stage = "diagnosis"       -> <<"COUNTERFACTUAL_PROMPT">>
      [] stage = "treatment_plan"  -> <<"TREATMENT_PROMPT">>

\* the label under which the Proceed handler files a stage's result
StageLabel(stage) ==
    CASE stage = "extract"         -> "Extracted Key Factors"
      [] stage = "causal_analysis" -> "Causal Analysis"
      [] stage = "missing_info"    -> "Missing Information Check"
      [] stage = "diagnosis"       -> "Final Diagnosis"
      [] stage = "treatment_plan"  -> "Treatment Plan"

\* the stages in which Proceed calls the model
ProceedStages == {"extract", "causal_analysis", "missing_info", "diagnosis", "treatment_plan"}

\* the stage assigned that sends missing_info back to itself on an answer
\* that asks for more
ProceedNext_LoopsOnQuestions(stage, result) ==
    CASE stage = "extract"         -> "causal_analysis"
      [] stage = "causal_analysis" -> "missing_info"
      [] stage = "missing_info"    ->
             IF result = RefinedResponse THEN "missing_info" ELSE "diagnosis"
      [] stage = "diagnosis"       -> "confirm_diagnosis"
      [] stage = "treatment_plan"  -> "confirm_treatment"

\* the stage the Proceed handler assigns after a stage's model call; the
\* generated text plays no part
ProceedNext(stage, result) ==
    CASE stage = "extract"         -> "causal_analysis"
      [] stage = "causal_analysis" -> "missing_info"
      [] stage = "missing_info"    -> "diagnosis"
      [] stage = "diagnosis"       -> "confirm_diagnosis"
      [] stage = "treatment_plan"  -> "confirm_treatment"

\* the context the Proceed handler passes to run_llm: the case for extract,
\* otherwise the content of the last conversation entry
ProceedContext(ss, case_details) ==
    IF ss.stage = "extract"
    THEN <<"Case:\n">> \o case_details
    ELSE ss.conversation[Len(ss.conversation)].content

\* run_llm: the prompt, a blank line, the context
full_prompt(prompt, additional_context) == prompt \o <<"\n\n">> \o additional_context

\* the Proceed handler that moves on although the model call failed
ProceedHandler_AdvancesOnFailure(ss, case_details, gw) ==
    IF ss.stage \in ProceedStages
    THEN LET sent == full_prompt(StagePrompt(ss.stage), ProceedContext(ss, case_details))
         IN  IF gw.ok
             THEN [ state |-> [ stage |-> ProceedNext(ss.stage, gw.text),
                                conversation |->
                                    Append(ss.conversation,
                                           [stage |-> StageLabel(ss.stage),
                                            content |-> gw.text]) ],
                    raised |-> FALSE, prompts |-> <<sent>>, replies |-> <<gw.text>> ]
             ELSE [ state |-> [ss EXCEPT !.stage = ProceedNext(ss.stage, gw.text)],
                    raised |-> FALSE, prompts |-> <<sent>>, replies |-> <<>> ]
    ELSE [ state |-> ss, raised |-> FALSE, prompts |-> <<>>, replies |-> <<>> ]

\* lines 49-116: the Proceed handler.  Yields the session state, whether
\* the script stopped on an exception, and the prompts sent with their replies.
ProceedHandler(ss, case_details, gw) ==
    IF ss.stage \in ProceedStages
    THEN LET sent == full_prompt(StagePrompt(ss.stage), ProceedContext(ss, case_details))
         IN  IF gw.ok
             THEN [ state |-> [ stage |-> ProceedNext(ss.stage, gw.text),
                                conversation |->
                                    Append(ss.conversation,
                                           [stage |-> StageLabel(ss.stage),
                                            content |-> gw.text]) ],
                    raised |-> FALSE, prompts |-> <<sent>>, replies |-> <<gw.text>> ]
             ELSE [ state |-> ss, raised |-> TRUE, prompts |-> <<sent>>, replies |-> <<>> ]
    ELSE [ state |-> ss, raised |-> FALSE, prompts |-> <<>>, replies |-> <<>> ]

\* the confirm buttons taking a Proceed press for their own
AfterProceed_AnyButton(ss, ev, user_missing_input) ==
    LET ss1 == IF ss.stage = "missing_info" /\ Truthy(user_missing_input)
               THEN [ss EXCEPT !.conversation =
                        Append(@, [stage |-> "User Additional Info",
                                   content |-> user_missing_input])]
               ELSE ss
        ss2 == IF ss1.stage = "confirm_diagnosis" /\ ev \in {"confirm_diagnosis", "proceed"}
               THEN [ss1 EXCEPT !.stage = "treatment_plan"]
               ELSE ss1
        ss3 == IF ss2.stage = "confirm_treatment" /\ ev \in {"confirm_treatment", "proceed"}
               THEN [ss2 EXCEPT !.stage = "done"]
               ELSE ss2
    IN  [ state   |-> ss3,
          widgets |-> (IF ss.stage = "missing_info" THEN {"missing_input"} ELSE {})
                        \cup (IF ss1.stage = "confirm_diagnosis"
                              THEN {"confirm_diagnosis"} ELSE {})
                        \cup (IF ss2.stage = "confirm_treatment"
                              THEN {"confirm_treatment"} ELSE {}) ]

\* lines 122-151: the additional-information field and the two confirm
\* buttons, each under its own stage test, in script order
AfterProceed(ss, ev, user_missing_input) ==
    LET ss1 == IF ss.stage = "missing_info" /\ Truthy(user_missing_input)
               THEN [ss EXCEPT !.conversation =
                        Append(@, [stage |-> "User Additional Info",
                                   content |-> user_missing_input])]
               ELSE ss
        ss2 == IF ss1.stage = "confirm_diagnosis" /\ ev = "confirm_diagnosis"
               THEN [ss1 EXCEPT !.stage = "treatment_plan"]
               ELSE ss1
        ss3 == IF ss2.stage = "confirm_treatment" /\ ev = "confirm_treatment"
               THEN [ss2 EXCEPT !.stage = "done"]
               ELSE ss2
    IN  [ state   |-> ss3,
          widgets |-> (IF ss.stage = "missing_info" THEN {"missing_input"} ELSE {})
                        \cup (IF ss1.stage = "confirm_diagnosis"
                              THEN {"confirm_diagnosis"} ELSE {})
                        \cup (IF ss2.stage = "confirm_treatment"
                              THEN {"confirm_treatment"} ELSE {}) ]

\* one run of the app1.py script
app1(ss, ev, case_details, user_missing_input, gw) ==
    LET p == IF ev = "proceed" THEN ProceedHandler(ss, case_details, gw)
             ELSE [state |-> ss, raised |-> FALSE, prompts |-> <<>>, replies |-> <<>>]
        a == AfterProceed(p.state, ev, user_missing_input)
    IN  IF p.raised
        THEN [ state |-> p.state, raised |-> TRUE, widgets |-> {},
               prompts |-> p.prompts, replies |-> p.replies ]
        ELSE [ state |-> a.state, raised |-> FALSE, widgets |-> a.widgets,
               prompts |-> p.prompts, replies |-> p.replies ]

----------------------------------------------------------------------------
(* The one-call workflow: App/workflows/diagnosis.py *)

\* TreatmentPlan(...).dict() with every field empty
EmptyPlan ==
    [ primary_treatments |-> <<>>, secondary_treatments |-> <<>>,
      monitoring_plan |-> <<>>, expected_outcomes |-> EmptyDict,
      alternative_plans |-> <<>> ]

\* what the six agent functions called by run do (ok: the call returned).
\* extract_nodes calls .dict() on a str (extractor.py:108),
\* check_missing_info unpacks a four-key dict into three names
\* (validator.py:79), analyze_causal_links and analyze_counterfactuals call
\* .dict() on the keys of a dict (analyzer.py:92, 106),
\* generate_treatment_options calls .dict() on a dict (planner.py:95): each
\* raises.  create_final_plan returns the empty plan.
DiagnosisOutcomes ==
    [ extract : {[ok |-> FALSE, value |-> <<>>]},
      gaps    : {[ok |-> FALSE, value |-> <<>>]},
      causal  : {[ok |-> FALSE, value |-> <<>>]},
      counterfactuals : {[ok |-> FALSE, value |-> <<>>]},
      options : {[ok |-> FALSE, value |-> <<>>]},
      plan    : {[ok |-> TRUE, value |-> EmptyPlan]} ]

\* _validate_info: missing items and their questions with complete False,
\* or complete True
validate_info(state, ag) ==
    IF ~ag.gaps.ok
    THEN [raised |-> TRUE, state |-> EmptyDict]
    ELSE [ raised |-> FALSE,
           state |-> IF Len(ag.gaps.value) > 0
                     THEN Put(Put(Put(state, "missing_info", ag.gaps.value),
                                  "questions", generate_followup_questions(ag.gaps.value)),
                              "complete", FALSE)
                     ELSE Put(state, "complete", TRUE) ]

\* _check_validation: state.get("complete", False)
check_validation(state) ==
    IF Get(state, "complete", FALSE) THEN "complete" ELSE "incomplete"

\* _analyze_causal
analyze_causal(state, ag) ==
    IF ~ag.causal.ok \/ ~ag.counterfactuals.ok
    THEN [raised |-> TRUE, state |-> EmptyDict]
    ELSE [ raised |-> FALSE,
           state |-> Put(state, "analysis",
                         [ causal_links |-> ag.causal.value,
                           counterfactuals |-> ag.counterfactuals.value ]) ]

\* _plan_treatment
plan_treatment(state, ag) ==
    IF ~ag.options.ok \/ ~ag.plan.ok
    THEN [raised |-> TRUE, state |-> EmptyDict]
    ELSE [raised |-> FALSE, state |-> Put(state, "treatment_plan", ag.plan.value)]

\* DiagnosisWorkflow.run: extract, validate, return if not complete, then
\* analyse and plan.  Yields whether the call raised and the returned state.
run(case_text, ag) ==
    IF ~ag.extract.ok
    THEN [raised |-> TRUE, state |-> EmptyDict]
    ELSE LET v == validate_info(Put("case_text" :> case_text, "nodes", ag.extract.value), ag)
         IN  IF v.raised \/ ~Get(v.state, "complete", FALSE)
             THEN v
             ELSE LET a == analyze_causal(v.state, ag)
                  IN  IF a.raised THEN a ELSE plan_treatment(a.state, ag)

----------------------------------------------------------------------------
(* State machine *)

\* a stage that makes no gateway call draws no gateway outcome
NoGateway == [ok |-> TRUE, text |-> <<>>]

OutcomesFor(stage) ==
    IF stage \in GenerationStages THEN GatewayOutcomes(stage) ELSE {NoGateway}

\* what a call left behind for the caller to see
Returned(stage, input_text, chat_history, out) ==
    [ stage |-> stage, input_text |-> input_text, chat_history |-> chat_history,
      raised |-> out.raised, value |-> out.value ]

\* no call made yet
NoCall ==
    [ stage |-> "", input_text |-> NoneText, chat_history |-> NoneHistory,
      raised |-> FALSE, value |-> EmptyDict ]

\* the stage the driver runs next: the returned next_stage, when there is one
FollowNextStage(stage, out) ==
    IF ~out.raised /\ "next_stage" \in DOMAIN out.value
    THEN out.value["next_stage"]
    ELSE stage

\* a validation answer that keeps the driver in validation
IsRetry(stage, out) ==
    stage = "validation" /\ ~out.raised /\ FollowNextStage(stage, out) = "validation"

\* the two objects of each class that one program holds
Instances == {"a", "b"}

\* no call made yet on the paired objects
NoPairCall ==
    [ who |-> "", op |-> "", stage |-> "", text |-> NoneText, approved |-> FALSE,
      gw |-> NoGateway ]

\* the threads that call the one session
Threads == {1, 2}

\* a thread that has not called process_input
NotCalling == [pc |-> "idle", user_input |-> NoneText, response |-> <<>>, raised |-> FALSE]

\* no process_stage call in progress; "before" is the store a call found
\* when it was entered
NoPending ==
    [ stage |-> "", input_text |-> NoneText, chat_history |-> NoneHistory,
      request |-> EmptyDict, before |-> EmptyDict ]

\* no get_stage_result call made yet
NoLookup == [stage |-> "", value |-> EmptyDict, at |-> 0]

\* what a ChatSession call left behind for the caller to see
ChatReturned(op, approved, text, out) ==
    [ op |-> op, approved |-> approved, text |-> text,
      raised |-> out.raised, value |-> out.value ]

\* no ChatSession call made yet
NoChatCall ==
    [ op |-> "", approved |-> FALSE, text |-> NoneText,
      raised |-> FALSE, value |-> EmptyDict ]

\* session.start_case or session.approve_stage, by the name of the method
ChatCall(h, op, approved, text, gw) ==
    IF op = "start_case"
    THEN start_case(h, text, gw)
    ELSE approve_stage(h, approved, text, gw)

\* the call gets to line 21 of handlers.py, self.azure_model.invoke(prompt),
\* where it waits for the answer
ReachesInvoke(h, op, approved, text) ==
    \E gw \in AzureOutcomes : ChatCall(h, op, approved, text, gw).log # <<>>

\* no ChatSession call waiting.  A waiting call holds the handler it read
\* from self.handler when it was entered: "detached" says clear_session has
\* since put another handler in the session, "held" is then the handler
\* the call still holds
NoChatPending ==
    [ op |-> "", approved |-> FALSE, text |-> NoneText, prompt |-> <<>>,
      detached |-> FALSE, held |-> PromptHandler ]

\* clear_session while the call p waits: the call keeps the handler h that
\* the session drops
Detach(p, h) ==
    IF p # NoChatPending /\ ~p.detached
    THEN [p EXCEPT !.detached = TRUE, !.held = h]
    ELSE p

Init ==
    /\ results = EmptyDict
    /\ lastReturn = NoCall
    /\ gatewayLog = <<>>
    /\ currentStage = "initial"
    /\ attempts = 0
    /\ calls = 0
    /\ lastLookup = NoLookup
    /\ handler = PromptHandler
    /\ chatReturn = NoChatCall
    /\ azureLog = <<>>
    /\ turns = 0
    /\ sessions = [i \in Instances |-> PromptHandler]
    /\ workflows = [i \in Instances |-> EmptyDict]
    /\ pairCall = NoPairCall
    /\ pairOps = 0
    /\ threads = [t \in Threads |-> NotCalling]
    /\ session_state = EmptyDict
    /\ rerunPending = FALSE
    \* no script run of App/main.py made yet
    /\ lastRun = [ event |-> NoEvent, step |-> 0, rerun |-> FALSE, raised |-> FALSE,
                   widgets |-> {}, analyses |-> {} ]
    /\ runs = 0
    /\ app_state = [stage |-> "extract", conversation |-> <<>>]
    \* no script run of app1.py made yet
    /\ lastClick = [ event |-> "none", stage |-> "extract", raised |-> FALSE,
                     widgets |-> {}, prompts |-> <<>>, replies |-> <<>> ]
    /\ clicks = 0
    \* no run_diagnosis call made yet
    /\ diagnosisRun = [ called |-> FALSE, case_text |-> <<>>, agents |-> EmptyDict,
                        raised |-> FALSE, state |-> EmptyDict ]
    /\ pending = NoPending
    /\ pairPending = [i \in Instances |-> NoPending]
    /\ chatPending = NoChatPending
    /\ pairChatPending = [i \in Instances |-> NoChatPending]

\* WorkflowEngine.Advance: run process_stage for the current stage and move
\* to the stage its result names
Advance ==
    \E input_text \in InputTexts, chat_history \in Histories,
       gw \in OutcomesFor(currentStage) :
        LET out == process_stage(results, currentStage, input_text, chat_history, gw)
        IN  /\ IsRetry(currentStage, out) => attempts < MaxRetries
            /\ results' = out.results
            /\ lastReturn' = Returned(currentStage, input_text, chat_history, out)
            /\ gatewayLog' = out.log
            /\ currentStage' = FollowNextStage(currentStage, out)
            /\ attempts' = IF IsRetry(currentStage, out) THEN attempts + 1 ELSE 0
            /\ UNCHANGED <<calls, lastLookup, pending>>
            /\ UNCHANGED besidesWorkflow

\* the effect of clear_results on the workflow
clear_results ==
    /\ results' = EmptyDict
    /\ lastReturn' = NoCall
    /\ gatewayLog' = <<>>

\* WorkflowEngine.Reset: clear the store and start over
Reset ==
    /\ clear_results
    /\ currentStage' = "initial"
    /\ attempts' = 0
    /\ UNCHANGED <<calls, lastLookup, pending>>
    /\ UNCHANGED besidesWorkflow

Next == Advance \/ Reset

\* the pipeline driven stage by stage
Spec == Init /\ [][Next]_vars

\* WorkflowEngine.Advance in a run that ends at complete and whose gateway
\* never fails (it answers: gw.ok); attempts keeps the number of validation re-runs of the run,
\* up to MaxRetries
Drive ==
    \E input_text \in {CaseText}, chat_history \in {NoneHistory},
       gw \in {o \in OutcomesFor(currentStage) : o.ok} :
        LET out == process_stage(results, currentStage, input_text, chat_history, gw)
        IN  /\ currentStage # "complete"
            /\ results' = out.results
            /\ lastReturn' = Returned(currentStage, input_text, chat_history, out)
            /\ gatewayLog' = out.log
            /\ currentStage' = FollowNextStage(currentStage, out)
            /\ attempts' = IF IsRetry(currentStage, out) /\ attempts < MaxRetries
                           THEN attempts + 1 ELSE attempts
            /\ UNCHANGED <<calls, lastLookup, pending>>
            /\ UNCHANGED besidesWorkflow

\* a validation run whose answer holds the readiness marker
ValidationReady == Drive /\ currentStage = "validation" /\ currentStage' # "validation"

NextLive == Drive

\* the driver always runs the next stage, and of the validation answers it
\* keeps getting some holds the readiness marker
SpecLive ==
    /\ Init
    /\ [][NextLive]_vars
    /\ WF_vars(Drive)
    /\ SF_vars(ValidationReady)

\* process_stage entered with the given arguments: the entry is marked
\* and, in a generation stage, the call waits for the gateway; nothing has
\* been returned and no exchange made by this call yet
BeginCall(stage, input_text, chat_history) ==
    LET b == BeginStage(results, stage, input_text, chat_history)
    IN  /\ pending = NoPending
        /\ results' = b.results
        /\ pending' = [ stage |-> stage, input_text |-> input_text,
                        chat_history |-> chat_history, request |-> b.request,
                        before |-> results ]
        /\ lastReturn' = NoCall
        /\ gatewayLog' = <<>>
        /\ calls' = calls + 1
        /\ UNCHANGED <<currentStage, attempts, lastLookup>>
        /\ UNCHANGED besidesWorkflow

\* the call in progress comes back: the gateway answered or raised, and
\* process_stage stores and returns, or raises
EndCall ==
    /\ pending # NoPending
    /\ \E gw \in OutcomesFor(pending.stage) :
        LET out == FinishStage(results, pending.stage, pending.input_text,
                               pending.request, gw)
        IN  /\ results' = out.results
            /\ lastReturn' = Returned(pending.stage, pending.input_text,
                                      pending.chat_history, out)
            /\ gatewayLog' = out.log
            /\ pending' = NoPending
            /\ UNCHANGED <<currentStage, attempts, calls, lastLookup>>
            /\ UNCHANGED besidesWorkflow

\* a direct call of process_stage, for any stage id, in any order
CallBegin ==
    \E stage \in StageIds, input_text \in InputTexts, chat_history \in Histories :
        /\ calls < MaxCalls
        /\ BeginCall(stage, input_text, chat_history)

\* a direct call of clear_results
ClearResults ==
    /\ results # EmptyDict
    /\ clear_results
    /\ UNCHANGED <<currentStage, attempts, calls, lastLookup, pending>>
    /\ UNCHANGED besidesWorkflow

NextCalls == CallBegin \/ EndCall \/ ClearResults

\* process_stage and clear_results called directly, in any order; the store
\* can be cleared while a call waits for the gateway
SpecCalls == Init /\ [][NextCalls]_vars

----------------------------------------------------------------------------
(* The chat session driven by a caller *)

\* a call made on the session.  One that gets to invoke reads self.handler,
\* builds the prompt and waits there, having written nothing; one that does
\* not get to invoke is done in this step
SessionCall(op, approved, text) ==
    /\ IF ReachesInvoke(handler, op, approved, text)
       THEN /\ chatPending = NoChatPending
            /\ chatPending' =
                   [ op |-> op, approved |-> approved, text |-> text,
                     prompt |-> format_prompt(NODE_EXTRACTION_PROMPT, text),
                     detached |-> FALSE, held |-> PromptHandler ]
            /\ UNCHANGED <<handler, chatReturn, azureLog>>
       ELSE LET out == ChatCall(handler, op, approved, text, NoGateway)
            IN  /\ handler' = out.handler
                /\ chatReturn' = ChatReturned(op, approved, text, out)
                /\ azureLog' = out.log
                /\ UNCHANGED chatPending
    /\ turns' = turns + 1
    /\ UNCHANGED besidesChat

\* session.start_case(case_text), up to the wait in invoke
StartCase ==
    \E case_text \in CaseTexts :
        /\ turns < MaxTurns
        /\ SessionCall("start_case", FALSE, case_text)

\* session.approve_stage(approved, improvement_text): up to the wait in
\* invoke when the stage is run again, the whole call otherwise
ApproveStage ==
    \E approved \in BOOLEAN, improvement_text \in ImprovementTexts :
        /\ turns < MaxTurns
        /\ SessionCall("approve_stage", approved, improvement_text)

\* invoke answers or raises and the waiting call goes on from line 21 to
\* its return, on the handler it holds
CallReturns ==
    /\ chatPending # NoChatPending
    /\ \E gw \in AzureOutcomes :
        LET held == IF chatPending.detached THEN chatPending.held ELSE handler
            out == ChatCall(held, chatPending.op, chatPending.approved,
                            chatPending.text, gw)
        IN  /\ handler' = IF chatPending.detached THEN handler ELSE out.handler
            /\ chatReturn' = ChatReturned(chatPending.op, chatPending.approved,
                                          chatPending.text, out)
            /\ azureLog' = out.log
            /\ chatPending' = NoChatPending
            /\ UNCHANGED turns
            /\ UNCHANGED besidesChat

\* session.get_status()
GetStatus ==
    /\ turns < MaxTurns
    /\ handler' = handler
    /\ chatReturn' = [ op |-> "get_status", approved |-> FALSE, text |-> NoneText,
                       raised |-> FALSE, value |-> get_status(handler) ]
    /\ azureLog' = <<>>
    /\ turns' = turns + 1
    /\ UNCHANGED chatPending
    /\ UNCHANGED besidesChat

\* session.clear_session(); a call that waits keeps the handler dropped here
ClearSession ==
    /\ turns < MaxTurns
    /\ handler' = clear_session(handler)
    /\ chatPending' = Detach(chatPending, handler)
    /\ chatReturn' = [ op |-> "clear_session", approved |-> FALSE, text |-> NoneText,
                       raised |-> FALSE, value |-> NoneReturn ]
    /\ azureLog' = <<>>
    /\ turns' = turns + 1
    /\ UNCHANGED besidesChat

\* session.handler.memory.clear()
MemoryClear ==
    /\ turns < MaxTurns
    /\ handler' = [handler EXCEPT !.memory = clear(@)]
    /\ chatReturn' = [ op |-> "clear", approved |-> FALSE, text |-> NoneText,
                       raised |-> FALSE, value |-> NoneReturn ]
    /\ azureLog' = <<>>
    /\ turns' = turns + 1
    /\ UNCHANGED chatPending
    /\ UNCHANGED besidesChat

NextChat ==
    StartCase \/ ApproveStage \/ CallReturns \/ GetStatus \/ ClearSession \/ MemoryClear

\* one ChatSession called in any order; while a call waits in invoke the
\* session can be read and cleared
SpecChat == Init /\ [][NextChat]_vars

----------------------------------------------------------------------------
(* A workflow and a chat session held by the same caller *)

\* the calls made so far on either object are within the bound
Budget == calls + turns < MaxOps

\* process_stage entered with the case text and no chat history
WorkflowBegin ==
    /\ Budget
    /\ \E stage \in StageIds : BeginCall(stage, CaseText, NoneHistory)

\* get_stage_result written as self.results.setdefault(stage, {})
GetStageResult_SetDefault ==
    /\ Budget
    /\ \E stage \in StageIds :
           /\ lastLookup' = [stage |-> stage, value |-> get_stage_result(results, stage),
                             at |-> calls + 1]
           /\ results' = IF stage \in DOMAIN results THEN results
                         ELSE Put(results, stage, EmptyDict)
    /\ calls' = calls + 1
    /\ UNCHANGED <<lastReturn, gatewayLog, currentStage, attempts, pending>>
    /\ UNCHANGED besidesWorkflow

\* get_stage_result(stage): the value is handed back, the store is not
\* written; "at" numbers the call among the calls made on the workflow
GetStageResult ==
    /\ Budget
    /\ \E stage \in StageIds :
           lastLookup' = [stage |-> stage, value |-> get_stage_result(results, stage),
                          at |-> calls + 1]
    /\ results' = results
    /\ calls' = calls + 1
    /\ UNCHANGED <<lastReturn, gatewayLog, currentStage, attempts, pending>>
    /\ UNCHANGED besidesWorkflow

SessionStart == Budget /\ StartCase

SessionApprove == Budget /\ ApproveStage

SessionStatus == Budget /\ GetStatus

SessionClear == Budget /\ ClearSession

NextObjects ==
    \/ WorkflowBegin
    \/ EndCall
    \/ ClearResults
    \/ GetStageResult
    \/ SessionStart
    \/ SessionApprove
    \/ CallReturns
    \/ SessionStatus
    \/ SessionClear

\* a DiagnosisWorkflow and a ChatSession called in any interleaving
SpecObjects == Init /\ [][NextObjects]_vars

----------------------------------------------------------------------------
(* Two chat sessions and two workflows held by one program *)

\* the stages called on the paired workflows
PairStages == {"initial", "extraction", "validation"}

\* the decisions passed to approve_stage on the paired sessions
Decisions ==
    { [approved |-> TRUE, text |-> NoneText], [approved |-> FALSE, text |-> RefineText] }

\* state kept in a class attribute: every instance sees the write
WriteInstance_Shared(objs, i, v) == [j \in DOMAIN objs |-> v]

\* __init__ gives each instance its own messages, stage_results and
\* results objects, so a method writes the state of its own instance only
WriteInstance(objs, i, v) == [objs EXCEPT ![i] = v]

\* a call made on sessions[i]: up to the wait in invoke, or the whole call
\* when it does not get there
PairSessionCall(i, op, approved, text) ==
    /\ pairOps < MaxPairOps
    /\ IF ReachesInvoke(sessions[i], op, approved, text)
       THEN /\ pairChatPending[i] = NoChatPending
            /\ pairChatPending' =
                   WriteInstance(pairChatPending, i,
                       [ op |-> op, approved |-> approved, text |-> text,
                         prompt |-> format_prompt(NODE_EXTRACTION_PROMPT, text),
                         detached |-> FALSE, held |-> PromptHandler ])
            /\ UNCHANGED sessions
       ELSE /\ sessions' =
                   WriteInstance(sessions, i,
                       ChatCall(sessions[i], op, approved, text, NoGateway).handler)
            /\ UNCHANGED pairChatPending
    /\ pairCall' = [ who |-> i, op |-> op, stage |-> "", text |-> text,
                     approved |-> approved, gw |-> NoGateway ]
    /\ pairOps' = pairOps + 1
    /\ UNCHANGED <<workflows, pairPending>>
    /\ UNCHANGED besidesPair

\* sessions[i].start_case(case_text)
PairStartCase ==
    \E i \in Instances, case_text \in CaseTexts :
        PairSessionCall(i, "start_case", FALSE, case_text)

\* sessions[i].approve_stage(approved, improvement_text)
PairApproveStage ==
    \E i \in Instances, d \in Decisions :
        PairSessionCall(i, "approve_stage", d.approved, d.text)

\* the call waiting on sessions[i] gets its answer and goes on to its
\* return, on the handler it holds
PairCallReturns ==
    \E i \in Instances :
        /\ pairChatPending[i] # NoChatPending
        /\ \E gw \in AzureOutcomes :
            LET p == pairChatPending[i]
                held == IF p.detached THEN p.held ELSE sessions[i]
                out == ChatCall(held, p.op, p.approved, p.text, gw)
            IN  /\ sessions' = IF p.detached THEN sessions
                               ELSE WriteInstance(sessions, i, out.handler)
                /\ pairChatPending' = WriteInstance(pairChatPending, i, NoChatPending)
                /\ pairCall' = [ who |-> i,
                                 op |-> IF p.op = "start_case" THEN "start_case returns"
                                        ELSE "approve_stage returns",
                                 stage |-> "", text |-> p.text,
                                 approved |-> p.approved, gw |-> gw ]
                /\ UNCHANGED <<workflows, pairPending, pairOps>>
                /\ UNCHANGED besidesPair

\* sessions[i].clear_session(); a call that waits keeps the handler dropped
PairClearSession ==
    \E i \in Instances :
        /\ pairOps < MaxPairOps
        /\ sessions' = WriteInstance(sessions, i, clear_session(sessions[i]))
        /\ pairChatPending' = WriteInstance(pairChatPending, i,
                                   Detach(pairChatPending[i], sessions[i]))
        /\ pairCall' = [NoPairCall EXCEPT !.who = i, !.op = "clear_session"]
        /\ pairOps' = pairOps + 1
        /\ UNCHANGED <<workflows, pairPending>>
        /\ UNCHANGED besidesPair

\* workflows[i].process_stage(stage, case text) entered
PairStageBegin ==
    \E i \in Instances, stage \in PairStages :
        LET b == BeginStage(workflows[i], stage, CaseText, NoneHistory)
        IN  /\ pairOps < MaxPairOps
            /\ pairPending[i] = NoPending
            /\ workflows' = WriteInstance(workflows, i, b.results)
            /\ pairPending' = WriteInstance(pairPending, i,
                                  [ stage |-> stage, input_text |-> CaseText,
                                    chat_history |-> NoneHistory, request |-> b.request,
                                    before |-> workflows[i] ])
            /\ pairCall' = [ who |-> i, op |-> "process_stage", stage |-> stage,
                             text |-> CaseText, approved |-> FALSE, gw |-> NoGateway ]
            /\ pairOps' = pairOps + 1
            /\ UNCHANGED <<sessions, pairChatPending>>
            /\ UNCHANGED besidesPair

\* the process_stage call in progress on workflows[i] comes back
PairStageEnd ==
    \E i \in Instances :
        /\ pairPending[i] # NoPending
        /\ \E gw \in OutcomesFor(pairPending[i].stage) :
            LET out == FinishStage(workflows[i], pairPending[i].stage,
                                   pairPending[i].input_text, pairPending[i].request, gw)
            IN  /\ workflows' = WriteInstance(workflows, i, out.results)
                /\ pairPending' = WriteInstance(pairPending, i, NoPending)
                /\ pairCall' = [ who |-> i, op |-> "process_stage returns",
                                 stage |-> pairPending[i].stage,
                                 text |-> CaseText, approved |-> FALSE, gw |-> gw ]
                /\ UNCHANGED <<sessions, pairOps, pairChatPending>>
                /\ UNCHANGED besidesPair

\* workflows[i].clear_results()
PairClearResults ==
    \E i \in Instances :
        /\ pairOps < MaxPairOps
        /\ workflows' = WriteInstance(workflows, i, EmptyDict)
        /\ pairCall' = [NoPairCall EXCEPT !.who = i, !.op = "clear_results"]
        /\ pairOps' = pairOps + 1
        /\ UNCHANGED <<sessions, pairPending, pairChatPending>>
        /\ UNCHANGED besidesPair

NextPair ==
    \/ PairStartCase
    \/ PairApproveStage
    \/ PairCallReturns
    \/ PairClearSession
    \/ PairStageBegin
    \/ PairStageEnd
    \/ PairClearResults

\* calls on the four objects in any interleaving
SpecPair == Init /\ [][NextPair]_vars

----------------------------------------------------------------------------
(* Threads calling process_input on one session.  The method holds no lock;
   each of its statements (lines 17-25 of handlers.py) is one step, and the
   steps of two threads come in any order. *)

\* the thread is between entering process_input and returning from it
Inside(t) == threads[t].pc \notin {"idle", "done"}

\* line 16-17: the call is entered, the stage is tested, the prompt is built
ThreadEnter(t) ==
    /\ threads[t].pc = "idle"
    /\ handler.memory.current_stage = NODE_EXTRACTION
    /\ \E user_input \in CaseTexts :
           threads' = [threads EXCEPT ![t] = [@ EXCEPT !.pc = "invoke",
                                                       !.user_input = user_input]]
    /\ UNCHANGED handler
    /\ UNCHANGED besidesThreads

\* line 18: the blocking call of the model returns an answer or raises
ThreadInvoke(t) ==
    /\ threads[t].pc = "invoke"
    /\ \E gw \in AzureOutcomes :
           threads' = [threads EXCEPT ![t] =
                          IF gw.ok
                          THEN [@ EXCEPT !.pc = "store", !.response = gw.text]
                          ELSE [@ EXCEPT !.pc = "done", !.raised = TRUE]]
    /\ UNCHANGED handler
    /\ UNCHANGED besidesThreads

\* line 21: self.memory.store_stage_result(response)
ThreadStore(t) ==
    /\ threads[t].pc = "store"
    /\ handler' = [handler EXCEPT !.memory = store_stage_result(@, threads[t].response)]
    /\ threads' = [threads EXCEPT ![t].pc = "add_user"]
    /\ UNCHANGED besidesThreads

\* line 24: self.memory.add_message("user", user_input)
ThreadAddUser(t) ==
    /\ threads[t].pc = "add_user"
    /\ handler' = [handler EXCEPT !.memory = add_message(@, "user", threads[t].user_input)]
    /\ threads' = [threads EXCEPT ![t].pc = "add_assistant"]
    /\ UNCHANGED besidesThreads

\* line 25 and the return: self.memory.add_message("assistant", response)
ThreadAddAssistant(t) ==
    /\ threads[t].pc = "add_assistant"
    /\ handler' = [handler EXCEPT !.memory = add_message(@, "assistant", threads[t].response)]
    /\ threads' = [threads EXCEPT ![t].pc = "done"]
    /\ UNCHANGED besidesThreads

NextThreads ==
    \E t \in Threads :
        \/ ThreadEnter(t)
        \/ ThreadInvoke(t)
        \/ ThreadStore(t)
        \/ ThreadAddUser(t)
        \/ ThreadAddAssistant(t)

\* two threads, each making one start_case call on the same session
SpecThreads == Init /\ [][NextThreads]_vars

----------------------------------------------------------------------------
(* App/main.py run by Streamlit *)

\* one run of the script: after st.rerun() it starts at once with no widget
\* event, otherwise on an interaction with a widget the last run rendered
ScriptRun ==
    \E ev \in (IF rerunPending THEN {NoEvent} ELSE EventsOf(lastRun.widgets)),
       ag \in AnalysisOutcomes :
        LET out == main(session_state, ev, ag)
        IN  /\ runs < MaxRuns
            /\ session_state' = out.state
            /\ rerunPending' = out.rerun
            /\ lastRun' = [ event |-> ev,
                            step |-> IF ImportsSucceed
                                     THEN initialize_app(session_state)["step"]
                                     ELSE 0,
                            rerun |-> out.rerun, raised |-> out.raised,
                            widgets |-> out.widgets, analyses |-> out.analyses ]
            /\ runs' = runs + 1
            /\ UNCHANGED <<diagnosisVars, proceedVars, workflowVars, chatVars, pairVars,
                           threadVars>>

NextSteps == ScriptRun

\* one browser session of the step-based flow
SpecSteps == Init /\ [][NextSteps]_vars

----------------------------------------------------------------------------
(* app1.py run by Streamlit *)

\* one run of the script: on Proceed, on a confirm button the last run
\* rendered, or on another interaction (an edit of a text field); the
\* additional-information field holds text only if the last run rendered it
Click ==
    \E ev \in {"none", "proceed"} \cup (lastClick.widgets \ {"missing_input"}),
       user_missing_input \in (IF "missing_input" \in lastClick.widgets
                               THEN {<<>>, RefineText} ELSE {<<>>}),
       gw \in AzureOutcomes :
        LET out == app1(app_state, ev, CaseText, user_missing_input, gw)
        IN  /\ clicks < MaxClicks
            /\ app_state' = out.state
            /\ lastClick' = [ event |-> ev, stage |-> app_state.stage,
                              raised |-> out.raised, widgets |-> out.widgets,
                              prompts |-> out.prompts, replies |-> out.replies ]
            /\ clicks' = clicks + 1
            /\ UNCHANGED besidesProceed

NextProceed == Click

\* one browser session of the Proceed-button flow
SpecProceed == Init /\ [][NextProceed]_vars

----------------------------------------------------------------------------
(* run_diagnosis called by a client *)

\* run_diagnosis(case_text): a fresh DiagnosisWorkflow, then run
RunDiagnosis ==
    \E case_text \in {<<>>} \cup CaseTexts, ag \in DiagnosisOutcomes :
        LET out == run(case_text, ag)
        IN  /\ diagnosisRun' = [ called |-> TRUE, case_text |-> case_text,
                                 agents |-> ag,
                                 raised |-> out.raised, state |-> out.state ]
            /\ UNCHANGED <<workflowVars, chatVars, pairVars, threadVars, stepVars,
                           proceedVars>>

NextDiagnosis == RunDiagnosis

\* run_diagnosis called again and again
SpecDiagnosis == Init /\ [][NextDiagnosis]_vars

----------------------------------------------------------------------------
(* Claims *)

\* place of a stage in the chain initial .. complete
ChainIndex(stage) == IndexOf(Chain, stage)

\* the immediate successor of a stage before complete
Successor(stage) == Chain[ChainIndex(stage) + 1]

\* a step of the driver: Advance records the stage it ran, Reset records none
AdvanceStep == lastReturn'.stage = currentStage

\* C1: every process_stage result for a stage other than validation names
\* the immediate successor of that stage in the chain initial .. complete,
\* whatever the gateway answered, and a driver following next_stage stays
\* where it is or moves to the immediate successor: it never skips a stage
\* and never moves backward.
C1_NextStageIsSuccessor ==
    [][ AdvanceStep =>
          /\ (lastReturn'.stage \in KnownStages \ {"validation"} /\ ~lastReturn'.raised)
                => /\ "next_stage" \in DOMAIN lastReturn'.value
                   /\ lastReturn'.value["next_stage"] = Successor(lastReturn'.stage)
          /\ ChainIndex(currentStage') >= ChainIndex(currentStage)
          /\ ChainIndex(currentStage') <= ChainIndex(currentStage) + 1 ]_vars

\* C1 witness: the driver went through the whole chain to complete, with a
\* non-validation stage answered by a text that holds the readiness marker
C1_Witness ==
    /\ currentStage = "complete"
    /\ lastReturn.stage = "visualization"
    /\ lastReturn.value["next_stage"] = "complete"
    /\ results["diagnosis"]["diagnosis"] = ReadyResponse
    /\ results["diagnosis"]["next_stage"] = "treatment_planning"

\* C2: in every reachable store, a stage whose stored next_stage is its own
\* identifier is validation with ready false, and a validation entry with
\* ready true names counterfactual as next_stage.
C2_OnlyValidationSelfLoops ==
    \A k \in DOMAIN results :
        "next_stage" \in DOMAIN results[k] =>
            /\ results[k]["next_stage"] = k
                  => (k = "validation" /\ results[k]["ready"] = FALSE)
            /\ (k = "validation" /\ results[k]["ready"] = TRUE)
                  => results[k]["next_stage"] = "counterfactual"

\* C2 witness: a store in which validation loops on itself beside another
\* recorded stage
C2_Witness ==
    /\ {"validation", "counterfactual"} \subseteq DOMAIN results
    /\ "next_stage" \in DOMAIN results["counterfactual"]
    /\ "next_stage" \in DOMAIN results["validation"]
    /\ results["validation"]["next_stage"] = "validation"
    /\ results["validation"]["ready"] = FALSE

\* C3: after any number n >= 1 of consecutive validation calls answered
\* without the readiness marker, the driver is still at validation, the last
\* call returned next_stage validation, and results['validation'] is exactly
\* the n-th response with ready false: nothing of an earlier attempt is kept.
C3_ValidationRetryReplaces ==
    attempts >= 1 =>
        /\ currentStage = "validation"
        /\ lastReturn.stage = "validation"
        /\ ~lastReturn.raised
        /\ lastReturn.value["next_stage"] = "validation"
        /\ Len(gatewayLog) = 1
        /\ ~Contains(gatewayLog[1].reply, ReadyMarker)
        /\ results["validation"] =
              [ validation_result |-> gatewayLog[1].reply,
                ready |-> FALSE,
                next_stage |-> "validation" ]

\* C3 witness: the third consecutive answer without the marker is the one
\* stored and returned
C3_Witness ==
    /\ attempts = 3
    /\ gatewayLog[1].reply = CheckResponse
    /\ results["validation"]["validation_result"] = CheckResponse

\* the stored next_stage of entry k agrees with get_next_stage
AgreesWithCatalog(k) == results[k]["next_stage"] = get_next_stage(k)

\* the validation entry of a not-ready answer
NotReadyValidation(k) == k = "validation" /\ results[k]["ready"] = FALSE

\* C5 as stated: every stored next_stage equals get_next_stage(stage), except
\* for validation when ready is false.
C5_Original ==
    \A k \in DOMAIN results :
        "next_stage" \in DOMAIN results[k] =>
            (NotReadyValidation(k) \/ AgreesWithCatalog(k))

\* C5 amended: every stored next_stage equals get_next_stage(stage), except
\* for validation when ready is false and for visualization, whose stored
\* next_stage is complete while get_next_stage gives visualization itself.
C5_CatalogOrderExceptLast ==
    \A k \in DOMAIN results :
        "next_stage" \in DOMAIN results[k] =>
            \/ NotReadyValidation(k)
            \/ /\ k = "visualization"
               /\ results[k]["next_stage"] = "complete"
               /\ get_next_stage(k) = "visualization"
            \/ (k # "visualization" /\ AgreesWithCatalog(k))

\* C5 witness: every stage of the catalog has run and visualization is stored
C5_Witness ==
    /\ currentStage = "complete"
    /\ \A i \in 1..Len(stage_sequence) : stage_sequence[i] \in DOMAIN results
    /\ results["visualization"]["next_stage"] = "complete"
    /\ results["validation"]["next_stage"] = get_next_stage("validation")

\* C4 as stated: process_stage('complete') never fails, returns the last
\* recorded result, leaves the store unchanged and the driver at complete.
C4_CompleteIsNoOp ==
    [][ (currentStage = "complete" /\ AdvanceStep) =>
          /\ ~lastReturn'.raised
          /\ lastReturn'.value = results["visualization"]
          /\ results' = results
          /\ currentStage' = "complete" ]_vars

\* a step in which the process_stage call in progress comes back
Returns == pending # NoPending /\ pending' = NoPending

\* a step in which process_stage is entered
Begins == pending = NoPending /\ pending' # NoPending

\* C6 as stated: a process_stage call whose gateway call raises leaves the
\* store exactly as it was before the call.
C6_FailureLeavesStore ==
    [][ (Returns /\ lastReturn'.raised) => results' = pending.before ]_vars

\* C7 as stated: process_stage with an identifier outside the stage set
\* fails, makes no gateway call and leaves the store unchanged.
C7_UnknownStageRejected ==
    [][ (Returns /\ pending.stage = UnknownStage) =>
          /\ lastReturn'.raised
          /\ gatewayLog' = <<>>
          /\ results' = pending.before ]_vars

\* a stage has a recorded result in a store
HasResult(res, stage) == stage \in DOMAIN res /\ "next_stage" \in DOMAIN res[stage]

\* C8 as stated: process_stage for a generation stage with a dependency that
\* has no recorded result fails, does not call the gateway and records no
\* result for the stage.
C8_MissingDependencyRejected ==
    [][ ( /\ Returns
          /\ pending.stage \in GenerationStages
          /\ \E d \in Dependencies(pending.stage) : ~HasResult(pending.before, d) )
        =>
          /\ lastReturn'.raised
          /\ gatewayLog' = <<>>
          /\ ~HasResult(pending.before, pending.stage)
                => ~HasResult(results', pending.stage) ]_vars

----------------------------------------------------------------------------

\* entries a store may hold under a stage id, and one more text
OtherText == <<"something else">>

AnyEntry(k) ==
    CASE k = "initial" ->
            {[case_text |-> t, next_stage |-> "extraction"] : t \in {NoneText, OtherText}}
      [] k \in GenerationStages ->
            {[processing |-> TRUE]}
                \cup {StageResult(k, r) : r \in {ReadyResponse, OtherText}}
      [] OTHER ->
            {[processing |-> TRUE], VisualizationResult(OtherText)}

\* a store without its entry for k
Without(res, k) == [x \in DOMAIN res \ {k} |-> res[x]]

\* the stores that differ from res in the entry of k alone
Changed(res, k) == {Put(res, k, e) : e \in AnyEntry(k)} \cup {Without(res, k)}

\* C9: the payload composed for a generation stage S does not change when
\* the stored result of S itself or of any later stage is changed, removed
\* or added; and the payload a call actually sent is the one composed from
\* the store the call left behind, in which only the entry of S is new.
C9_ContextReadsEarlierOnly ==
    /\ \A S \in GenerationStages, t \in InputTexts :
          LET sent == Payload(S, results, t)
          IN  \A k \in {x \in KnownStages \cup {"complete"} : ChainIndex(x) >= ChainIndex(S)} :
                  \A other \in Changed(results, k) : Payload(S, other, t) = sent
    /\ (lastReturn.stage \in GenerationStages) =>
          /\ Len(gatewayLog) = 1
          /\ gatewayLog[1].request.payload
                = Payload(lastReturn.stage, results, lastReturn.input_text)

\* C9 witness: validation is run again over its own earlier result, and the
\* payload sent holds the two earlier stages' texts only
C9_Witness ==
    /\ attempts = 2
    /\ lastReturn.stage = "validation"
    /\ lastReturn.input_text = NoneText
    /\ results["validation"]["validation_result"] = CheckResponse
    /\ results["extraction"]["extracted_factors"] = PlainResponse
    /\ results["causal_analysis"]["causal_links"] = ReadyResponse
    /\ gatewayLog[1].request.payload =
          <<"VALIDATION_PROMPT", "{", "Extracted Factors:\n">> \o PlainResponse
              \o <<"\n\nCausal Links:\n">> \o ReadyResponse \o <<"}">>

\* an input_text that is neither None nor ""
NonEmptyText(t) == t # NoneText /\ t # <<>>

\* C10 as stated: for a generation stage other than validation and
\* patient_specific, the payload sent is the one any other input_text would
\* have given.
C10_Original ==
    [][ (Returns /\ pending.stage \in GenerationStages \ {"validation", "patient_specific"})
          => \A t \in InputTexts :
                 gatewayLog'[1].request.payload = Payload(pending.stage, pending.before, t)
      ]_vars

----------------------------------------------------------------------------

\* a chat_history that is a list with at least one turn
NonEmptyLog(h) == h \notin {NoneHistory, <<>>}

\* C11: a process_stage call for a generation stage makes exactly one
\* gateway call, in history mode when chat_history is a non-empty list and
\* in one-shot prompt mode when it is None or empty.
C11_ModeFollowsHistory ==
    (lastReturn.stage \in GenerationStages) =>
        /\ Len(gatewayLog) = 1
        /\ NonEmptyLog(lastReturn.chat_history)
              => gatewayLog[1].request.mode = "history"
        /\ ~NonEmptyLog(lastReturn.chat_history)
              => gatewayLog[1].request.mode = "prompt"

\* C11 witness: final_plan called with an empty list goes one-shot, after a
\* call that went in history mode
C11_Witness ==
    /\ lastReturn.stage = "final_plan"
    /\ lastReturn.chat_history = <<>>
    /\ gatewayLog[1].request.mode = "prompt"
    /\ "extraction" \in DOMAIN results
    /\ calls = 2

\* C12: in history mode the gateway receives one system turn carrying the
\* composed stage payload, then the caller's turns in their order, and the
\* caller's list is left as it was passed.
C12_HistoryMessages ==
    (lastReturn.stage \in GenerationStages /\ NonEmptyLog(lastReturn.chat_history)) =>
        LET sent == gatewayLog[1].request.messages
            log  == lastReturn.chat_history
        IN  /\ Len(sent) = Len(log) + 1
            /\ sent[1] = [role |-> "system", content |-> gatewayLog[1].request.payload]
            /\ \A i \in 1..Len(log) : sent[i + 1] = log[i]
            /\ gatewayLog[1].request.chat_history = log

\* C12 witness: diagnosis called with a two-turn log after an earlier call
C12_Witness ==
    /\ lastReturn.stage = "diagnosis"
    /\ Len(lastReturn.chat_history) = 2
    /\ lastReturn.chat_history # NoneHistory
    /\ Len(gatewayLog[1].request.messages) = 3
    /\ gatewayLog[1].request.messages[1].role = "system"
    /\ calls = 2

\* does the text hold the readiness marker at some place
HoldsMarker(text) ==
    \E i \in 1..Len(text) :
        /\ i + Len(ReadyMarker) - 1 <= Len(text)
        /\ SubSeq(text, i, i + Len(ReadyMarker) - 1) = ReadyMarker

\* C13: every answered validation call returns, without raising, a result
\* whose ready flag is true exactly when the answer holds the readiness
\* marker; an answer without it gives ready false and next_stage validation,
\* and the driver stays at validation.
C13_ReadinessNeverFails ==
    (lastReturn.stage = "validation" /\ Len(gatewayLog) = 1 /\ gatewayLog[1].ok) =>
        /\ ~lastReturn.raised
        /\ lastReturn.value["ready"] = HoldsMarker(gatewayLog[1].reply)
        /\ lastReturn.value["validation_result"] = gatewayLog[1].reply
        /\ ~HoldsMarker(gatewayLog[1].reply) =>
              /\ lastReturn.value["next_stage"] = "validation"
              /\ currentStage = "validation"
        /\ HoldsMarker(gatewayLog[1].reply) =>
              /\ lastReturn.value["next_stage"] = "counterfactual"
              /\ currentStage = "counterfactual"

\* C13 witness: an answer with a correctly encoded check mark is not ready
\* and keeps the driver at validation
C13_Witness ==
    /\ lastReturn.stage = "validation"
    /\ Len(gatewayLog) = 1
    /\ gatewayLog[1].reply = CheckResponse
    /\ lastReturn.value["ready"] = FALSE
    /\ currentStage = "validation"

\* the key under which a generation stage stores the gateway's text
PrimaryField(stage) ==
    CASE stage = "extraction"         -> "extracted_factors"
      [] stage = "causal_analysis"    -> "causal_links"
      [] stage = "validation"         -> "validation_result"
      [] stage = "counterfactual"     -> "counterfactual_analysis"
      [] stage = "diagnosis"          -> "diagnosis"
      [] stage = "treatment_planning" -> "treatment_plan"
      [] stage = "patient_specific"   -> "patient_specific_plan"
      [] stage = "final_plan"         -> "final_treatment_plan"

\* C14: an answered process_stage call for a generation stage leaves the
\* gateway's text verbatim under the stage's primary key, and leaves every
\* other stage's entry as it was: none added, none removed, none altered.
C14_StoresResponseVerbatim ==
    [][ /\ (Returns /\ pending.stage \in GenerationStages /\ ~lastReturn'.raised) =>
              /\ results'[pending.stage][PrimaryField(pending.stage)] = gatewayLog'[1].reply
              /\ DOMAIN results' = DOMAIN results \cup {pending.stage}
              /\ \A k \in DOMAIN results \ {pending.stage} : results'[k] = results[k]
        /\ (Begins /\ pending'.stage \in GenerationStages) =>
              /\ DOMAIN results' = DOMAIN results \cup {pending'.stage}
              /\ \A k \in DOMAIN results \ {pending'.stage} : results'[k] = results[k]
      ]_vars

\* C14 witness: initial with the case text, then extraction answered with
\* "Symptoms: chest pain"
C14_Witness ==
    /\ lastReturn.stage = "extraction"
    /\ ~lastReturn.raised
    /\ DOMAIN results = {"initial", "extraction"}
    /\ pending = NoPending
    /\ "case_text" \in DOMAIN results["initial"]
    /\ results["initial"]["case_text"] = CaseText
    /\ results["extraction"]["extracted_factors"] = PlainResponse
    /\ results["extraction"]["next_stage"] = "causal_analysis"

----------------------------------------------------------------------------
(* Claims about resets and lookups, on a workflow and a chat session *)

\* a ChatSession call enters and waits in invoke
ChatEnters == chatPending = NoChatPending /\ chatPending' # NoChatPending

\* the ChatSession call that waited in invoke comes back
ChatReturns == chatPending # NoChatPending /\ chatPending' = NoChatPending

\* the step finishes a ChatSession call of the given operation: the call
\* that waited comes back, or a call that does not wait is made
ChatStep(op) ==
    /\ chatReturn'.op = op
    /\ ChatReturns \/ (turns' = turns + 1 /\ ~ChatEnters)

\* the step is a clear_results call: the store changes while no
\* process_stage call is entered or comes back
ClearStep == results' # results /\ pending' = pending

\* C15: after clear_results the lookup of every stage returns the empty
\* dict and the store is empty; after clear_session the session shows no
\* stage result and an empty conversation log, whatever was done before.
C15_ResetClearsAll ==
    [][ /\ ClearStep =>
              /\ results' = EmptyDict
              /\ \A stage \in StageIds : get_stage_result(results', stage) = EmptyDict
        /\ ChatStep("clear_session") =>
              /\ get_status(handler').current_result = <<>>
              /\ get_status(handler').history = <<>>
              /\ handler'.memory.stage_results = EmptyDict
              /\ handler'.memory.messages = <<>>
      ]_vars

\* C15 witness: a workflow cleared after a process_stage call, next to a
\* session that was cleared
C15_Witness ==
    /\ results = EmptyDict
    /\ lastReturn = NoCall
    /\ lastLookup = NoLookup
    /\ calls = 1
    /\ chatReturn.op = "clear_session"
    /\ handler = PromptHandler

\* C16: get_stage_result, for a recorded, an unrecorded and an unknown
\* stage alike, hands back the stage's entry (or the empty dict) and leaves
\* the store as it was; get_status leaves the session's stage results and
\* conversation log as they were.
C16_LookupsReadOnly ==
    [][ /\ (calls' = calls + 1 /\ lastLookup'.at = calls') =>
              /\ results' = results
              /\ lastLookup'.value =
                    IF lastLookup'.stage \in DOMAIN results
                    THEN results[lastLookup'.stage] ELSE EmptyDict
        /\ ChatStep("get_status") =>
              /\ handler'.memory.stage_results = handler.memory.stage_results
              /\ handler'.memory.messages = handler.memory.messages
              /\ handler' = handler
      ]_vars

\* C16 witness: a lookup of a stage that has no entry, after a call that
\* recorded another one
C16_Witness ==
    /\ lastLookup.at = 2
    /\ lastLookup.stage = UnknownStage
    /\ lastLookup.value = EmptyDict
    /\ DOMAIN results = {"extraction"}

----------------------------------------------------------------------------
(* Claims about the chat session *)

\* the session has just handed out a stage output for approval: the call
\* that finished last on it returned status awaiting_approval, and no
\* get_status, clear or clear_session has finished since
AwaitingApproval ==
    /\ ~chatReturn.raised
    /\ "status" \in DOMAIN chatReturn.value
    /\ chatReturn.value["status"] = "awaiting_approval"

\* the call failed and changed nothing in the session
Refused ==
    /\ chatReturn'.raised
    /\ handler' = handler

\* C17: approve_stage called on a fresh session before any start_case, or
\* approve_stage(approved=True) called right after an approve_stage(True),
\* is refused.
C17_ApproveOutOfStateFails ==
    [][ /\ (ChatStep("approve_stage") /\ turns = 0) => Refused
        /\ ( /\ ChatStep("approve_stage")
             /\ chatReturn'.approved
             /\ chatReturn.op = "approve_stage"
             /\ chatReturn.approved ) => Refused
      ]_vars

\* C18: a start_case made while the output of the previous start_case is
\* still awaiting approval is refused and leaves the pending stage result
\* and the conversation log as they were.
C18_SecondStartCaseFails ==
    [][ ( /\ ChatStep("start_case")
          /\ chatReturn.op = "start_case"
          /\ AwaitingApproval ) => Refused
      ]_vars

\* a is a prefix of b
IsPrefix(a, b) == Len(a) <= Len(b) /\ SubSeq(b, 1, Len(a)) = a

\* C19: approve_stage(False, t) with a non-empty t, made while an output is
\* awaiting approval (no other call finishes on the session before it comes
\* back) and answered by the model, invokes the model once with
\* the node-extraction prompt for t, reports the same stage, stores the new
\* answer as that stage's result, returns status awaiting_approval, and
\* appends exactly the user turn t and then the assistant turn.
C19_RefineRerunsSameStage ==
    [][ ( /\ ChatStep("approve_stage")
          /\ ~chatReturn'.approved
          /\ NonEmptyText(chatReturn'.text)
          /\ AwaitingApproval
          /\ ~chatReturn'.raised ) =>
            LET old == handler.memory.messages
                new == handler'.memory.messages
                t   == chatReturn'.text
            IN  /\ Len(azureLog') = 1
                /\ azureLog'[1].prompt = NODE_EXTRACTION_PROMPT \o <<"{">> \o t \o <<"}">>
                /\ chatReturn'.value["stage"] = chatReturn.value["stage"]
                /\ handler'.memory.current_stage = handler.memory.current_stage
                /\ handler'.memory.stage_results[handler.memory.current_stage]
                      = azureLog'[1].reply
                /\ chatReturn'.value["response"] = azureLog'[1].reply
                /\ chatReturn'.value["status"] = "awaiting_approval"
                /\ Len(new) = Len(old) + 2
                /\ IsPrefix(old, new)
                /\ new[Len(old) + 1] = [role |-> "user", content |-> t]
                /\ new[Len(old) + 2] = [role |-> "assistant", content |-> azureLog'[1].reply]
      ]_vars

\* C19 witness: the case answered with one text, the refinement with another
C19_Witness ==
    /\ chatReturn.op = "approve_stage"
    /\ ~chatReturn.approved
    /\ chatReturn.text = RefineText
    /\ Len(handler.memory.messages) = 4
    /\ handler.memory.messages[1].content = CaseText
    /\ handler.memory.messages[2].content = PlainResponse
    /\ handler.memory.messages[3].content = RefineText
    /\ handler.memory.stage_results[NODE_EXTRACTION] = RefinedResponse

\* C20: across start_case, approve_stage and get_status the conversation
\* log before the call is a prefix of the log after it; only clear and
\* clear_session remove turns.
C20_LogAppendOnly ==
    [][ /\ (ChatStep("start_case") \/ ChatStep("approve_stage") \/ ChatStep("get_status"))
              => IsPrefix(handler.memory.messages, handler'.memory.messages)
        /\ ~IsPrefix(handler.memory.messages, handler'.memory.messages)
              => (ChatStep("clear") \/ ChatStep("clear_session"))
      ]_vars

\* C20 witness: a log of four turns seen by get_status
C20_Witness ==
    /\ chatReturn.op = "get_status"
    /\ Len(chatReturn.value["history"]) = 4
    /\ chatReturn.value["history"] = handler.memory.messages
    /\ turns = 3

----------------------------------------------------------------------------
(* Claims about approval, refinement and failure in the chat session *)

\* the step is approve_stage(approved=True) on an output awaiting approval
ApprovesPending ==
    /\ ChatStep("approve_stage")
    /\ chatReturn'.approved
    /\ AwaitingApproval

\* C21: after an output awaiting approval is approved, the stage that
\* get_status reports is another stage than the one approved (its
\* successor).
C21_ApproveAdvances ==
    [][ ApprovesPending => get_status(handler').stage # get_status(handler).stage ]_vars

\* C22: after an output awaiting approval is approved, get_status reports
\* no current result, and never more than one stage holds a result.
C22_PendingEndsOnApprove ==
    [][ /\ ApprovesPending => get_status(handler').current_result = <<>>
        /\ Cardinality(DOMAIN handler'.memory.stage_results) <= 1
      ]_vars

\* the step is a refinement, answered by the model, of an output awaiting approval
AnsweredRefine ==
    /\ ChatStep("approve_stage")
    /\ ~chatReturn'.approved
    /\ NonEmptyText(chatReturn'.text)
    /\ AwaitingApproval
    /\ ~chatReturn'.raised

\* C23: the prompt a refinement sends to the model holds every turn the
\* session had logged before it (the case text, the previous answer) as
\* well as the refinement text.
C23_RefineSeesEarlierTurns ==
    [][ AnsweredRefine =>
          /\ Len(azureLog') = 1
          /\ Contains(azureLog'[1].prompt, chatReturn'.text)
          /\ \A i \in 1..Len(handler.memory.messages) :
                Contains(azureLog'[1].prompt, handler.memory.messages[i].content)
      ]_vars

\* C24: a start_case or approve_stage in which AzureModel.invoke raises
\* leaves the stage results and the conversation log as they were before
\* the call, so the same call made again and answered has the effect it
\* would have had the first time.  The call writes nothing on its way to
\* invoke, and nothing when invoke raises.
C24_FailedInvokeLeavesSession ==
    [][ /\ ChatEnters => handler' = handler
        /\ ( /\ (ChatStep("start_case") \/ ChatStep("approve_stage"))
             /\ chatReturn'.raised ) =>
            /\ Len(azureLog') = 1
            /\ ~azureLog'[1].ok
            /\ handler'.memory.stage_results = handler.memory.stage_results
            /\ handler'.memory.messages = handler.memory.messages
            /\ handler'.memory.current_stage = handler.memory.current_stage
            /\ \A gw \in AzureOutcomes :
                  process_input(handler', chatReturn'.text, gw)
                      = process_input(handler, chatReturn'.text, gw)
      ]_vars

\* C24 witness: a refinement whose invoke raised, after an answered case
C24_Witness ==
    /\ chatReturn.op = "approve_stage"
    /\ chatReturn.raised
    /\ chatReturn.text = RefineText
    /\ Len(azureLog) = 1
    /\ ~azureLog[1].ok
    /\ Len(handler.memory.messages) = 2
    /\ handler.memory.stage_results[NODE_EXTRACTION] = PlainResponse

----------------------------------------------------------------------------
(* Determinism of context composition *)

\* C27: the request a generation-stage call sent to the gateway is the
\* request the same call (same stage, input_text and chat_history) would
\* send if made again on the store as the call left it: prompt, context
\* and message list are the same, chunk for chunk.
C27_CompositionDeterministic ==
    [][ ( /\ Returns
          /\ pending.stage \in GenerationStages
          /\ results = Prewrite(pending.before, pending.stage) ) =>
            LET again == GatewayRequest(pending.stage,
                                        Prewrite(results', pending.stage),
                                        pending.input_text,
                                        pending.chat_history)
            IN  /\ again.payload = gatewayLog'[1].request.payload
                /\ again.messages = gatewayLog'[1].request.messages
                /\ again.mode = gatewayLog'[1].request.mode
      ]_vars

\* C27 witness: an answered validation call with additional information,
\* on a store that holds the extraction result its context reads
C27_Witness ==
    /\ lastReturn.stage = "validation"
    /\ ~lastReturn.raised
    /\ lastReturn.input_text = CaseText
    /\ "extraction" \in DOMAIN results
    /\ "extracted_factors" \in DOMAIN results["extraction"]
    /\ "validation_result" \in DOMAIN results["validation"]
    /\ Contains(gatewayLog[1].request.payload, results["extraction"]["extracted_factors"])

----------------------------------------------------------------------------
(* Independence of instances *)

\* the handler a session would have after the step c, made on it alone;
\* p is the call waiting on it.  A call that waits in invoke has written
\* nothing yet, and one whose handler clear_session dropped writes nothing
\* to the session
AloneSession(h, p, c) ==
    CASE c.op \in {"start_case", "approve_stage"} ->
             IF ReachesInvoke(h, c.op, c.approved, c.text) THEN h
             ELSE ChatCall(h, c.op, c.approved, c.text, NoGateway).handler
      [] c.op \in {"start_case returns", "approve_stage returns"} ->
             IF p.detached THEN h
             ELSE ChatCall(h, p.op, p.approved, p.text, c.gw).handler
      [] c.op = "clear_session" -> PromptHandler
      [] OTHER                  -> h

\* the results a workflow would have after the step c, made on it alone;
\* p is the call in progress on it
AloneWorkflow(res, p, c) ==
    CASE c.op = "process_stage" ->
             BeginStage(res, c.stage, c.text, NoneHistory).results
      [] c.op = "process_stage returns" ->
             FinishStage(res, p.stage, p.input_text, p.request, c.gw).results
      [] c.op = "clear_results" -> EmptyDict
      [] OTHER                  -> res

\* C25: a call on one ChatSession or DiagnosisWorkflow leaves the stage
\* results, current stage and conversation log of every other instance as
\* they were, and takes its own instance to the state the same call would
\* have given it with no other instance around.
C25_InstancesIndependent ==
    [][ (\/ pairOps' = pairOps + 1
         \/ pairPending' # pairPending
         \/ pairChatPending' # pairChatPending) =>
          /\ \A j \in Instances \ {pairCall'.who} :
                /\ sessions'[j] = sessions[j]
                /\ workflows'[j] = workflows[j]
                /\ pairPending'[j] = pairPending[j]
                /\ pairChatPending'[j] = pairChatPending[j]
          /\ sessions'[pairCall'.who] =
                 AloneSession(sessions[pairCall'.who], pairChatPending[pairCall'.who],
                              pairCall')
          /\ workflows'[pairCall'.who] =
                 AloneWorkflow(workflows[pairCall'.who], pairPending[pairCall'.who],
                               pairCall')
      ]_vars

\* C25 witness: the two sessions hold different cases, each with its own answer
C25_Witness ==
    /\ Len(sessions["a"].memory.messages) = 2
    /\ Len(sessions["b"].memory.messages) = 2
    /\ sessions["a"].memory.messages[1].content = CaseText
    /\ sessions["b"].memory.messages[1].content = RefineText
    /\ sessions["a"].memory.stage_results[NODE_EXTRACTION] = PlainResponse
    /\ sessions["b"].memory.stage_results[NODE_EXTRACTION] = RefinedResponse

----------------------------------------------------------------------------
(* One call at a time per session *)

\* C26: at most one thread is inside process_input of a session at a time,
\* and in the conversation log every user turn that has a successor is
\* followed by an assistant turn.
C26_OneCallAtATime ==
    /\ Cardinality({t \in Threads : Inside(t)}) <= 1
    /\ \A i \in 1..(Len(handler.memory.messages) - 1) :
          handler.memory.messages[i].role = "user"
              => handler.memory.messages[i + 1].role = "assistant"

----------------------------------------------------------------------------
(* Claims about the Proceed-button flow *)

\* the order of the stages of app1.py
ProceedChain ==
    << "extract", "causal_analysis", "missing_info", "diagnosis", "confirm_diagnosis",
       "treatment_plan", "confirm_treatment", "done" >>

\* the place of a stage in that order
ChainPlace(stage) == CHOOSE i \in 1..Len(ProceedChain) : ProceedChain[i] = stage

\* C30: a Proceed in one of the five generation stages that the model
\* answers appends exactly one entry, holding the answer, and moves the
\* stage to the next one of the chain whatever the answer is; every change
\* of stage is one place forward in the chain, and done is never left.
C30_ProceedAdvancesUnconditionally ==
    [][ (clicks' = clicks + 1) =>
          /\ ( /\ lastClick'.event = "proceed"
               /\ app_state.stage \in ProceedStages
               /\ ~lastClick'.raised ) =>
                 /\ Len(app_state'.conversation) = Len(app_state.conversation) + 1
                 /\ IsPrefix(app_state.conversation, app_state'.conversation)
                 /\ app_state'.conversation[Len(app_state'.conversation)].content
                       = lastClick'.replies[1]
                 /\ ChainPlace(app_state'.stage) = ChainPlace(app_state.stage) + 1
          /\ app_state'.stage # app_state.stage =>
                 ChainPlace(app_state'.stage) = ChainPlace(app_state.stage) + 1
          /\ app_state.stage = "done" => app_state'.stage = "done"
      ]_vars

\* C30 witness: Proceed pressed at done, after the whole chain
C30_Witness ==
    /\ app_state.stage = "done"
    /\ lastClick.stage = "done"
    /\ lastClick.event = "proceed"
    /\ Len(app_state.conversation) = 5
    /\ app_state.conversation[3].content = RefinedResponse

\* C31: Proceed pressed in confirm_diagnosis or confirm_treatment changes
\* neither the stage nor the conversation and sends nothing to the model;
\* the treatment-plan prompt is sent only in stage treatment_plan, which is
\* entered only by a press of Confirm Diagnosis, and done is entered only
\* by a press of Confirm Treatment Plan.
C31_ConfirmationsGate ==
    [][ (clicks' = clicks + 1) =>
          /\ ( /\ lastClick'.event = "proceed"
               /\ app_state.stage \in {"confirm_diagnosis", "confirm_treatment"} ) =>
                 /\ app_state' = app_state
                 /\ lastClick'.prompts = <<>>
          /\ ( /\ lastClick'.prompts # <<>>
               /\ IsPrefix(StagePrompt("treatment_plan"), lastClick'.prompts[1]) ) =>
                 app_state.stage = "treatment_plan"
          /\ (app_state'.stage = "treatment_plan" /\ app_state.stage # "treatment_plan") =>
                 (lastClick'.event = "confirm_diagnosis"
                    /\ app_state.stage = "confirm_diagnosis")
          /\ (app_state'.stage = "done" /\ app_state.stage # "done") =>
                 (lastClick'.event = "confirm_treatment"
                    /\ app_state.stage = "confirm_treatment")
      ]_vars

\* C31 witness: Proceed pressed in confirm_treatment, after the diagnosis
\* was confirmed and the treatment plan generated
C31_Witness ==
    /\ lastClick.event = "proceed"
    /\ lastClick.stage = "confirm_treatment"
    /\ app_state.stage = "confirm_treatment"
    /\ Len(app_state.conversation) >= 5
    /\ app_state.conversation[Len(app_state.conversation)].stage = "Treatment Plan"

\* the content of the Causal Analysis entry of a conversation
CausalAnalysisOutput(conversation) ==
    conversation[CHOOSE i \in 1..Len(conversation) :
                    conversation[i].stage = "Causal Analysis"].content

\* C32: the prompt sent by Proceed in stage missing_info is the validation
\* template followed by the causal-analysis output, whether or not
\* additional information was entered before.
C32_ValidationSeesCausalAnalysis ==
    [][ ( /\ clicks' = clicks + 1
          /\ lastClick'.event = "proceed"
          /\ app_state.stage = "missing_info" ) =>
            lastClick'.prompts[1] =
                full_prompt(StagePrompt("missing_info"),
                            CausalAnalysisOutput(app_state.conversation))
      ]_vars

\* the stages in which the Proceed handler or a confirm button reads the
\* last entry of the conversation
ReadingStages ==
    { "causal_analysis", "missing_info", "diagnosis", "treatment_plan",
      "confirm_diagnosis", "confirm_treatment" }

\* C38: in every stage that reads the last entry the conversation has at
\* least one entry, and a script run only ever appends to the conversation.
C38_ConversationNeverEmptyWhenRead ==
    [][ /\ app_state'.stage \in ReadingStages => Len(app_state'.conversation) >= 1
        /\ IsPrefix(app_state.conversation, app_state'.conversation)
      ]_vars

\* C38 witness: a model call failed at causal_analysis and the
\* conversation still holds the extraction entry, and only that
C38_Witness ==
    /\ app_state.stage = "causal_analysis"
    /\ lastClick.stage = "causal_analysis"
    /\ lastClick.event = "proceed"
    /\ lastClick.raised
    /\ Len(app_state.conversation) = 1

----------------------------------------------------------------------------
(* Claims about the pipeline run to its end *)

\* the stages of the catalog
CatalogStages == {stage_sequence[i] : i \in 1..Len(stage_sequence)}

\* C33: with a gateway that never fails and validation answers of which
\* some holds the readiness marker, the driver started at initial reaches
\* complete with a result stored for every stage of the catalog; every run
\* of a stage other than validation moves the driver to the next stage of
\* the chain, so each is run once and in order, and a run of validation
\* either stays or moves on to counterfactual.
C33_DriverReachesComplete ==
    /\ <>(currentStage = "complete" /\ DOMAIN results = CatalogStages)
    /\ [][ AdvanceStep =>
             \/ currentStage' = Successor(currentStage)
             \/ currentStage = "validation" /\ currentStage' = "validation"
         ]_vars

\* C33 witness: complete reached after validation was re-run MaxRetries
\* times or more
C33_Witness ==
    /\ currentStage = "complete"
    /\ lastReturn.stage = "visualization"
    /\ attempts = MaxRetries
    /\ DOMAIN results = CatalogStages
    /\ results["validation"]["ready"]

----------------------------------------------------------------------------
(* Claims about gateway calls and the visualization stage *)

\* the eight stages that are answered by the gateway
EightStages ==
    { "extraction", "causal_analysis", "validation", "counterfactual",
      "diagnosis", "treatment_planning", "patient_specific", "final_plan" }

\* C34: a process_stage call makes exactly one gateway call when its stage
\* is one of the eight generation stages, and none for initial,
\* visualization and any other identifier.
C34_OneGatewayCallPerStage ==
    lastReturn # NoCall =>
        Len(gatewayLog) = (IF lastReturn.stage \in EightStages THEN 1 ELSE 0)

\* C34 witness: a call for an unknown stage made no gateway call, after a
\* call for extraction that was answered
C34_Witness ==
    /\ lastReturn.stage = UnknownStage
    /\ gatewayLog = <<>>
    /\ calls = 2
    /\ "extraction" \in DOMAIN results
    /\ "extracted_factors" \in DOMAIN results["extraction"]

\* the fields of a rendered graph
GraphFields == {"graph_html_path", "embedded_graph_html"}

\* C35: a run of the visualization stage never raises and returns a result
\* whose next_stage is complete, so the driver moves to complete; the
\* result has the error field and no graph field when rendering failed,
\* and the graph fields and no error field when it succeeded.
C35_VisualizationAlwaysCompletes ==
    [][ (AdvanceStep /\ currentStage = "visualization") =>
          /\ ~lastReturn'.raised
          /\ lastReturn'.value = results'["visualization"]
          /\ "next_stage" \in DOMAIN lastReturn'.value
          /\ lastReturn'.value["next_stage"] = "complete"
          /\ currentStage' = "complete"
          /\ IF VisualizerHasInteractiveGraph
             THEN DOMAIN lastReturn'.value = GraphFields \cup {"next_stage"}
             ELSE DOMAIN lastReturn'.value = {"error", "next_stage"}
      ]_vars

\* C35 witness: the driver is at complete after a visualization run whose
\* rendering failed
C35_Witness ==
    /\ currentStage = "complete"
    /\ lastReturn.stage = "visualization"
    /\ "error" \in DOMAIN lastReturn.value
    /\ "causal_analysis" \in DOMAIN results

----------------------------------------------------------------------------
(* Further claims about the chat session *)

\* C36: approve_stage(approved=False) with no improvement text, or an empty
\* one, makes no gateway call, leaves the handler (stage results and log)
\* as it was, and returns status completed.
C36_BareRejectionCompletes ==
    [][ ( /\ ChatStep("approve_stage")
          /\ ~chatReturn'.approved
          /\ chatReturn'.text \in {NoneText, <<>>} ) =>
            /\ azureLog' = <<>>
            /\ handler' = handler
            /\ ~chatReturn'.raised
            /\ chatReturn'.value["status"] = "completed"
      ]_vars

\* C36 witness: a rejection with an empty text was answered completed
\* while a result was awaiting approval
C36_Witness ==
    /\ chatReturn.op = "approve_stage"
    /\ ~chatReturn.approved
    /\ chatReturn.text = <<>>
    /\ ~chatReturn.raised
    /\ chatReturn.value["status"] = "completed"
    /\ Len(handler.memory.messages) = 2

\* the role a turn at position i of an alternating log has
RoleAt(i) == IF i % 2 = 1 THEN "user" ELSE "assistant"

\* C37: the log has even length, its turns alternate user, assistant, and
\* when it is not empty the result stored for the current stage is the
\* content of its last turn, an assistant turn.
C37_LogAlternates ==
    LET memory == handler.memory
        log == memory.messages
    IN  /\ Len(log) % 2 = 0
        /\ \A i \in 1..Len(log) : log[i].role = RoleAt(i)
        /\ log # <<>> =>
             /\ memory.current_stage \in DOMAIN memory.stage_results
             /\ memory.stage_results[memory.current_stage] = log[Len(log)].content

\* C37 witness: two rounds with different answers
C37_Witness ==
    /\ Len(handler.memory.messages) = 4
    /\ handler.memory.messages[2].content # handler.memory.messages[4].content
    /\ handler.memory.messages[1].content # handler.memory.messages[3].content

====
